---- MODULE Spec2Model ----
(***************************************************************************)
(* Ticket lifecycle, auto-close sweeper and persistent store of the        *)
(* support bot.                                                            *)
(*                                                                         *)
(* Spec      : the conversation router (text, media and inline-button      *)
(*             handlers), TicketService and auto_close_inactive_tickets,   *)
(*             interleaved at the suspension points of the event loop.     *)
(* SpecSave  : DataManager._safe_write_json / load with a process crash    *)
(*             possible after every file-system step.                      *)
(* SpecActive: get_user_active_ticket on stores of two users.              *)
(* SpecLoad  : DataManager.load on every combination of file contents.     *)
(* SpecTrip  : DataManager.save followed by DataManager.load.              *)
(* SpecFail  : DataManager.save with a failure possible at every           *)
(*             file-system call.                                           *)
(* SpecSweep : the sweep loop when update_ticket cannot write.             *)
(* SpecRead  : the read operations of the DataManager.                     *)
(* SpecScreen: show_admin_screen and the registry of admin screens.        *)
(* SpecCooldown: FeedbackService.check_cooldown over time.                 *)
(* SpecFeedback: the feedback prompts and texts of a user.                 *)
(* SpecBan   : the entry points of a user who may be banned.               *)
(* SpecNotify: the notifications of a sweep when sends fail.               *)
(* SpecAsk   : the question flow with the handled text on record.          *)
(* SpecSched : the scheduler loop, its jobs, stop() and start().           *)
(* SpecAuto  : the scheduler left alone, with fairness, for liveness.      *)
(* SpecShutdown: the scheduler, saves that may fail, and post_shutdown.    *)
(* SpecService: TicketService called with present and missing ticket IDs.  *)
(* SpecJobs  : the scheduler loop with add_job and remove_job.              *)
(* SpecThanks: the thank button of the feedback cards.                      *)
(* SpecBanFile: ban_user, unban_user and the reload of the ban file.        *)
(*                                                                         *)
(* Time is counted in units of 24 hours: every timestamp of the model lies *)
(* on that grid, comparisons between timestamps are the code's.            *)
(***************************************************************************)
EXTENDS Integers, Sequences, FiniteSets, TLC

VARIABLES
    tickets,         \* data_manager.data["tickets"], in insertion order
    now,             \* datetime.now(TIMEZONE)
    state,           \* context.user_data["state"], per chat user
    reply_ticket_id, \* context.user_data["reply_ticket_id"] of the admin
    rate_btn,        \* tickets whose owner received the rating keyboard
    sweep_pc,        \* position of auto_close_inactive_tickets
    sweep_now,       \* local `now` of the running sweep
    closed_tickets,  \* local `closed_tickets` of the running sweep
    disk,            \* files DATA_FILE, DATA_FILE.bak, DATA_FILE.tmp
    mem,             \* snapshot held in memory by the DataManager
    save_pc,         \* position inside _safe_write_json
    payload,         \* snapshot being written by the running save
    prev,            \* content of DATA_FILE when the running save started
    saved,           \* snapshot of the last save that reached line 74
    lookup,          \* last call of get_user_active_ticket and its result
    save_failed,     \* tickets whose update_ticket could not write, this sweep
    screens,         \* ADMIN_SCREEN_MESSAGES
    chat,            \* messages of the admin chat and the screen each shows
    render,          \* what the last call on the registry did
    data_rest,       \* data["users"], data["feedbacks"], data["feedback_cooldowns"]
    reloaded,        \* the store a load() produced from the saved document
    clock,           \* datetime.now(TIMEZONE) of the feedback service, in ticks
    feedback_cooldowns, \* data["feedback_cooldowns"], per user and category
    skip_cooldown,   \* context.user_data["skip_cooldown"], per user
    cooldown_check,  \* the last call of check_cooldown and what it returned
    feedback_text,   \* the last feedback text handled and what was done
    banned,          \* ban_manager.banned, the banned user ids
    notify,          \* tickets the running sweep closed and the sends it tried
    hours,           \* datetime.now() of the scheduler, in hours
    sched,           \* SchedulerService: running, tasks, jobs, the loop task
    shutdown,        \* position of post_shutdown
    question_text,   \* the last text of a user and what the handler found
    svc_call,        \* the last call of a TicketService method and its result
    thanks,          \* the feedback records, their admin cards and thanks sent
    ban_store        \* ban_manager.banned with reasons, BANNED_FILE, the reload

vars == <<tickets, now, state, reply_ticket_id, rate_btn,
          sweep_pc, sweep_now, closed_tickets,
          disk, mem, save_pc, payload, prev, saved, lookup,
          save_failed, screens, chat, render, data_rest, reloaded,
          clock, feedback_cooldowns, skip_cooldown, cooldown_check,
          feedback_text, banned, notify, hours, sched, shutdown,
          question_text, svc_call, thanks, ban_store>>

ticketVars == <<tickets, now, state, reply_ticket_id, rate_btn,
                sweep_pc, sweep_now, closed_tickets>>

storeVars == <<disk, mem, save_pc, payload, prev, saved>>

screenVars == <<screens, chat, render>>

tripVars == <<data_rest, reloaded>>

feedbackVars == <<clock, feedback_cooldowns, skip_cooldown, cooldown_check,
                  feedback_text>>

schedVars == <<hours, sched, shutdown>>

extVars == <<svc_call, thanks, ban_store>>

svcVars == <<feedbackVars, banned, notify, schedVars,
                   question_text, extVars>>

auxVars == <<lookup, save_failed, screenVars, tripVars, svcVars>>

----------------------------------------------------------------------------
(* Bounds of the model *)

MaxTickets == 2

MaxTime == 2

MaxMessages == 3

MaxSnapshot == 3

(* Configuration (config.py) *)

ASK_MIN_LENGTH == 10

AUTO_CLOSE_AFTER_HOURS == 24

RATING_ENABLED == TRUE

ENABLE_MEDIA_FROM_USERS == TRUE

ADMIN_ID == 9

Users == {1}

None == 0

\* no call of get_user_active_ticket recorded
NoLookup == [user |-> None, result |-> None]

\* the value None of a ticket-id slot
NoId == [date |-> -1, seq |-> <<>>]

\* timedelta(hours=AUTO_CLOSE_AFTER_HOURS), in units of 24 hours
AutoCloseWindow == AUTO_CLOSE_AFTER_HOURS \div 24

\* now.strftime("%Y%m%d"): the calendar day of a timestamp (24 h = 1 unit)
DatePart(t) == t \div (24 \div 24)

\* the rating pressed on get_rating_keyboard (its first button)
Ratings == {5}

\* lengths of the texts users send: one below the minimum, one at it
TextLengths == {ASK_MIN_LENGTH - 1, ASK_MIN_LENGTH}

----------------------------------------------------------------------------
(* Ticket IDs: f"{prefix}{num:04d}" and int(tid.split("-")[-1]) *)

RECURSIVE Digits(_)
Digits(n) == IF n < 10 THEN <<n>> ELSE Append(Digits(n \div 10), n % 10)

RECURSIVE ZeroPad(_, _)
ZeroPad(ds, width) == IF Len(ds) >= width THEN ds ELSE ZeroPad(<<0>> \o ds, width)

\* f"{num:04d}"
FormatNum(num) == ZeroPad(Digits(num), 4)

RECURSIVE ParseNum(_)
\* int("0012")
ParseNum(ds) ==
    IF Len(ds) = 0 THEN 0
    ELSE 10 * ParseNum(SubSeq(ds, 1, Len(ds) - 1)) + ds[Len(ds)]

SetMax(S) == CHOOSE x \in S : \A y \in S : y <= x

\* generate_ticket_id without the startswith(prefix) filter
generate_ticket_id_AnyDay(ts, t) ==
    LET existing == DOMAIN ts
        num == IF existing = {} THEN 1
               ELSE SetMax({ParseNum(ts[i].id.seq) : i \in existing}) + 1
    IN  [date |-> DatePart(t), seq |-> FormatNum(num)]

\* TicketService.generate_ticket_id
generate_ticket_id(ts, t) ==
    LET existing == {i \in DOMAIN ts : ts[i].id.date = DatePart(t)}
        num == IF existing = {} THEN 1
               ELSE SetMax({ParseNum(ts[i].id.seq) : i \in existing}) + 1
    IN  [date |-> DatePart(t), seq |-> FormatNum(num)]

----------------------------------------------------------------------------
(* DataManager: the ticket dictionary *)

\* DataManager.get_ticket: index of the ticket with this id, None if absent
get_ticket(ts, tid) ==
    IF \E i \in DOMAIN ts : ts[i].id = tid
    THEN CHOOSE i \in DOMAIN ts : ts[i].id = tid
    ELSE None

\* DataManager.create_ticket: dict assignment, an existing key is overwritten
dm_create_ticket(ts, t) ==
    IF get_ticket(ts, t.id) # None
    THEN [ts EXCEPT ![get_ticket(ts, t.id)] = t]
    ELSE Append(ts, t)

IsOpen(t) == t.status \in {"new", "working"}

\* TicketService.get_active_tickets
get_active_tickets(ts) == {i \in DOMAIN ts : IsOpen(ts[i])}

\* min in place of max
MostRecent_Oldest(ts, cand) ==
    CHOOSE i \in cand :
        /\ \A j \in cand : ts[j].created_at >= ts[i].created_at
        /\ \A j \in cand : ts[j].created_at = ts[i].created_at => i <= j

\* max(tickets, key=lambda t: t.created_at): the first maximal element
MostRecent(ts, cand) ==
    CHOOSE i \in cand :
        /\ \A j \in cand : ts[j].created_at <= ts[i].created_at
        /\ \A j \in cand : ts[j].created_at = ts[i].created_at => i <= j

\* TicketService.get_user_active_ticket: index of the ticket, None if absent
get_user_active_ticket(ts, user_id) ==
    LET cand == {i \in DOMAIN ts : ts[i].user_id = user_id /\ IsOpen(ts[i])}
    IN  IF cand = {} THEN None ELSE MostRecent(ts, cand)

----------------------------------------------------------------------------
(* TicketService: operations on the ticket dictionary *)

NoTime == -1

\* Message(sender=..., text=..., at=...): the model keeps the sender
Message(sender) == [sender |-> sender]

\* TicketService.create_ticket
create_ticket(ts, t, user_id) ==
    dm_create_ticket(ts,
        [id |-> generate_ticket_id(ts, t),
         user_id |-> user_id,
         created_at |-> t,
         status |-> "new",
         messages |-> <<Message("user")>>,
         last_activity_at |-> t,
         last_actor |-> "user",
         assigned |-> None,
         first_response_at |-> NoTime,
         rated |-> FALSE,
         rating |-> None])

\* add_message without the assignment to last_actor
\* add_message stamping first_response_at at every support message
add_message_Restamp(ts, t, i, sender, admin_id) ==
    [ts EXCEPT
        ![i].messages = Append(@, Message(sender)),
        ![i].last_activity_at = t,
        ![i].last_actor = sender,
        ![i].first_response_at = IF sender = "support" THEN t ELSE @,
        ![i].assigned = IF sender = "support" /\ admin_id # None
                        THEN admin_id ELSE @]

add_message_KeepActor(ts, t, i, sender, admin_id) ==
    LET first == sender = "support" /\ ts[i].first_response_at = NoTime
    IN  [ts EXCEPT
            ![i].messages = Append(@, Message(sender)),
            ![i].last_activity_at = t,
            ![i].first_response_at = IF first THEN t ELSE @,
            ![i].assigned = IF first /\ admin_id # None THEN admin_id ELSE @]

\* TicketService.add_message (ticket i exists)
add_message(ts, t, i, sender, admin_id) ==
    LET first == sender = "support" /\ ts[i].first_response_at = NoTime
    IN  [ts EXCEPT
            ![i].messages = Append(@, Message(sender)),
            ![i].last_activity_at = t,
            ![i].last_actor = sender,
            ![i].first_response_at = IF first THEN t ELSE @,
            ![i].assigned = IF first /\ admin_id # None THEN admin_id ELSE @]

\* TicketService.take_ticket (ticket i exists)
take_ticket(ts, t, i, admin_id) ==
    [ts EXCEPT ![i].status = "working",
               ![i].assigned = admin_id,
               ![i].last_activity_at = t]

\* close_ticket writing a status outside the three values
close_ticket_Closed(ts, t, i) ==
    [ts EXCEPT ![i].status = "closed", ![i].last_activity_at = t]

\* TicketService.close_ticket (ticket i exists)
close_ticket(ts, t, i) ==
    [ts EXCEPT ![i].status = "done", ![i].last_activity_at = t]

\* TicketService.rate_ticket (ticket i exists)
rate_ticket(ts, i, rating) ==
    [ts EXCEPT ![i].rated = TRUE, ![i].rating = rating]

\* TicketService.clear_active_tickets: the dictionary after the loop
clear_active_tickets(ts, t) ==
    [i \in DOMAIN ts |->
        IF IsOpen(ts[i])
        THEN [ts[i] EXCEPT !.status = "done", !.last_activity_at = t]
        ELSE ts[i]]

----------------------------------------------------------------------------
(* auto_close_inactive_tickets *)

\* the sweep loop with "<=" in the comparison with the threshold
AutoCloseEligible_AtWindow(tk, t) ==
    /\ tk.status \in {"new", "working"}
    /\ tk.last_actor = "support"
    /\ (IF tk.last_activity_at # NoTime THEN tk.last_activity_at
        ELSE tk.created_at) <= t - AutoCloseWindow

\* the sweep loop without the test of last_actor
AutoCloseEligible_AnyActor(tk, t) ==
    /\ tk.status \in {"new", "working"}
    /\ (IF tk.last_activity_at # NoTime THEN tk.last_activity_at
        ELSE tk.created_at) < t - AutoCloseWindow

\* the three tests of the sweep loop for one ticket; threshold = now - window
AutoCloseEligible(tk, t) ==
    /\ tk.status \in {"new", "working"}
    /\ tk.last_actor = "support"
    /\ (IF tk.last_activity_at # NoTime THEN tk.last_activity_at
        ELSE tk.created_at) < t - AutoCloseWindow

\* the ticket dictionary after the sweep loop
SweepTickets(ts, t) ==
    [i \in DOMAIN ts |->
        IF AutoCloseEligible(ts[i], t)
        THEN [ts[i] EXCEPT !.status = "done", !.last_activity_at = t]
        ELSE ts[i]]

RECURSIVE SweepClosed(_, _, _)
\* closed_tickets after the sweep loop, in iteration order from index i
SweepClosed(ts, t, i) ==
    IF i > Len(ts) THEN <<>>
    ELSE (IF AutoCloseEligible(ts[i], t)
          THEN <<[id |-> ts[i].id,
                  user_id |-> ts[i].user_id,
                  hours_inactive |-> t - ts[i].last_activity_at]>>
          ELSE <<>>)
         \o SweepClosed(ts, t, i + 1)

----------------------------------------------------------------------------
(* Handlers: each action is the synchronous segment of one handler in which *)
(* it reads and mutates the store; the awaits around it only send messages. *)
(* Updates are dispatched one at a time (main.py builds the Application     *)
(* without concurrent updates), the sweeper runs as a task of the same loop.*)

Chats == Users \cup {ADMIN_ID}

\* ids carried by the inline buttons of the ticket cards sent so far; a card
\* that was not edited since keeps its take/close buttons
TicketIds == {tickets[i].id : i \in DOMAIN tickets}

\* a card with the reply button was rendered for ticket i: cards are rendered
\* with status working right after take_ticket, which assigns the admin
ReplyShown(i) == tickets[i].assigned # None

\* callback_handler, data == "user_start_question"
StartQuestion(u) ==
    /\ state' = [state EXCEPT ![u] = "awaiting_question"]
    /\ UNCHANGED <<tickets, now, reply_ticket_id, rate_btn,
                   sweep_pc, sweep_now, closed_tickets>>

\* a handler that opens a ticket from a text of any length
handle_question_text_AnyLength(u, len) ==
    /\ Len(tickets) < MaxTickets
    /\ tickets' = create_ticket(tickets, now, u)
    /\ state' = [state EXCEPT ![u] = "none"]

\* handle_question_text
handle_question_text(u, len) ==
    IF len < ASK_MIN_LENGTH
    THEN UNCHANGED <<tickets, state>>
    ELSE /\ Len(tickets) < MaxTickets
         /\ tickets' = create_ticket(tickets, now, u)
         /\ state' = [state EXCEPT ![u] = "none"]

\* a handler that appends whatever the last actor of the active ticket is
ActiveTicketMessage_NoTurn(u) ==
    LET active == get_user_active_ticket(tickets, u)
    IN  IF active # None
        THEN /\ Len(tickets[active].messages) < MaxMessages
             /\ tickets' = add_message(tickets, now, active, "user", None)
        ELSE UNCHANGED tickets

\* the branch of text_message_handler and of media_handler for a message
\* that goes to the sender's active ticket
ActiveTicketMessage(u) ==
    LET active == get_user_active_ticket(tickets, u)
    IN  IF active # None /\ tickets[active].last_actor # "user"
        THEN /\ Len(tickets[active].messages) < MaxMessages
             /\ tickets' = add_message(tickets, now, active, "user", None)
        ELSE UNCHANGED tickets

\* text_message_handler, sender is a regular user
UserText(u, len) ==
    /\ IF state[u] = "awaiting_question"
       THEN handle_question_text(u, len)
       ELSE ActiveTicketMessage(u) /\ UNCHANGED state
    /\ UNCHANGED <<now, reply_ticket_id, rate_btn,
                   sweep_pc, sweep_now, closed_tickets>>

\* media_handler, sender is a regular user
UserMedia(u) ==
    /\ IF ENABLE_MEDIA_FROM_USERS
       THEN ActiveTicketMessage(u)
       ELSE UNCHANGED tickets
    /\ UNCHANGED <<now, state, reply_ticket_id, rate_btn,
                   sweep_pc, sweep_now, closed_tickets>>

\* handle_rating, pressed by the owner on the rating keyboard of ticket tid
Rate(tid, rating) ==
    /\ RATING_ENABLED
    /\ tid \in rate_btn
    /\ LET i == get_ticket(tickets, tid)
       IN  tickets' = IF i = None THEN tickets ELSE rate_ticket(tickets, i, rating)
    /\ UNCHANGED <<now, state, reply_ticket_id, rate_btn,
                   sweep_pc, sweep_now, closed_tickets>>

\* handle_take_ticket
Take(tid) ==
    /\ LET i == get_ticket(tickets, tid)
       IN  tickets' = IF i = None THEN tickets
                      ELSE take_ticket(tickets, now, i, ADMIN_ID)
    /\ UNCHANGED <<now, state, reply_ticket_id, rate_btn,
                   sweep_pc, sweep_now, closed_tickets>>

\* handle_close_ticket; the owner receives the rating keyboard
Close(tid) ==
    /\ LET i == get_ticket(tickets, tid)
       IN  /\ tickets' = IF i = None THEN tickets
                         ELSE close_ticket(tickets, now, i)
           /\ rate_btn' = IF i # None /\ RATING_ENABLED THEN rate_btn \cup {tid}
                          ELSE rate_btn
    /\ UNCHANGED <<now, state, reply_ticket_id,
                   sweep_pc, sweep_now, closed_tickets>>

\* handle_reply_ticket
Reply(tid) ==
    /\ LET i == get_ticket(tickets, tid)
       IN  /\ i # None
           /\ ReplyShown(i)
    /\ reply_ticket_id' = tid
    /\ state' = [state EXCEPT ![ADMIN_ID] = "awaiting_reply"]
    /\ UNCHANGED <<tickets, now, rate_btn, sweep_pc, sweep_now, closed_tickets>>

\* a reply handler that forgets the ticket and goes on waiting
AdminReply_KeepsWaiting ==
    /\ state[ADMIN_ID] = "awaiting_reply"
    /\ LET i == get_ticket(tickets, reply_ticket_id)
       IN  IF reply_ticket_id = NoId \/ i = None
           THEN UNCHANGED <<tickets, state, reply_ticket_id>>
           ELSE /\ Len(tickets[i].messages) < MaxMessages
                /\ tickets' = add_message(tickets, now, i, "support", ADMIN_ID)
                /\ state' = state
                /\ reply_ticket_id' = NoId
    /\ UNCHANGED <<now, rate_btn, sweep_pc, sweep_now, closed_tickets>>

\* handle_admin_reply, reached from text_message_handler; the awaiting_reply
\* branch of media_handler has the same effect on the store
AdminReply ==
    /\ state[ADMIN_ID] = "awaiting_reply"
    /\ LET i == get_ticket(tickets, reply_ticket_id)
       IN  IF reply_ticket_id = NoId \/ i = None
           THEN UNCHANGED <<tickets, state, reply_ticket_id>>
           ELSE /\ Len(tickets[i].messages) < MaxMessages
                /\ tickets' = add_message(tickets, now, i, "support", ADMIN_ID)
                /\ state' = [state EXCEPT ![ADMIN_ID] = "none"]
                /\ reply_ticket_id' = NoId
    /\ UNCHANGED <<now, rate_btn, sweep_pc, sweep_now, closed_tickets>>

\* callback_handler, data == "clear_tickets"
ClearTickets ==
    /\ get_active_tickets(tickets) # {}
    /\ tickets' = clear_active_tickets(tickets, now)
    /\ UNCHANGED <<now, state, reply_ticket_id, rate_btn,
                   sweep_pc, sweep_now, closed_tickets>>

----------------------------------------------------------------------------
(* The sweeper job, run by the scheduler loop *)

\* lines 30-86: one synchronous pass over the open tickets
SweepScan ==
    /\ sweep_pc = "idle"
    /\ tickets' = SweepTickets(tickets, now)
    /\ closed_tickets' = SweepClosed(tickets, now, 1)
    /\ sweep_now' = now
    /\ sweep_pc' = IF closed_tickets' # <<>> THEN "notify" ELSE "return"
    /\ UNCHANGED <<now, state, reply_ticket_id, rate_btn>>

\* lines 93-152: the two awaited sends for the head of closed_tickets
SweepNotify ==
    /\ sweep_pc = "notify"
    /\ closed_tickets' = Tail(closed_tickets)
    /\ sweep_pc' = IF closed_tickets' # <<>> THEN "notify" ELSE "return"
    /\ UNCHANGED <<tickets, now, state, reply_ticket_id, rate_btn, sweep_now>>

\* the job returns to the scheduler loop
SweepReturn ==
    /\ sweep_pc = "return"
    /\ sweep_pc' = "idle"
    /\ sweep_now' = 0
    /\ closed_tickets' = <<>>
    /\ UNCHANGED <<tickets, now, state, reply_ticket_id, rate_btn>>

\* the wall clock advances
Tick ==
    /\ now < MaxTime
    /\ now' = now + 1
    /\ UNCHANGED <<tickets, state, reply_ticket_id, rate_btn,
                   sweep_pc, sweep_now, closed_tickets>>

----------------------------------------------------------------------------

(* DataManager._safe_write_json and DataManager.load on the three files.   *)
(* A file holds a complete snapshot (a version number >= 1), a partially   *)
(* written one, or does not exist. The store in memory holds a snapshot or *)
(* is empty.                                                               *)

Absent == 0

Partial == -1

EmptyStore == 0

\* a file that holds valid JSON which is not a store document (such as [])
Unparsable == -2

\* _load_from_path returned None
NoRaw == 0

\* _load_from_path: the raw document; None when the file is missing or is
\* not valid JSON
load_from_path(file) == IF file >= 1 \/ file = Unparsable THEN file ELSE NoRaw

\* load, lines 107-136: the store built from the raw document; the empty
\* store when raw.get or Ticket.from_dict raises
parse(raw) == IF raw >= 1 THEN raw ELSE EmptyStore

\* load without the fallback to the .bak file
load_PrimaryOnly(d) ==
    LET raw == load_from_path(d.primary)
    IN  IF raw = NoRaw THEN EmptyStore ELSE parse(raw)

\* DataManager.load: primary, else .bak, else the empty store
load(d) ==
    LET first == load_from_path(d.primary)
        raw == IF first = NoRaw THEN load_from_path(d.bak) ELSE first
    IN  IF raw = NoRaw THEN EmptyStore ELSE parse(raw)

\* os.path.exists
exists(file) == file # Absent

\* a snapshot that differs from every snapshot in memory or on disk
FreshSnapshot ==
    SetMax({mem, disk.primary, disk.bak, disk.tmp, EmptyStore}) + 1

\* a mutating operation that returns without calling save()
Mutate_NoSave ==
    /\ save_pc \in {"idle", "recovered"}
    /\ FreshSnapshot <= MaxSnapshot
    /\ mem' = FreshSnapshot
    /\ UNCHANGED <<disk, save_pc, payload, prev, saved>>

\* a mutating operation of the store followed by its call of save()
Mutate ==
    /\ save_pc \in {"idle", "recovered"}
    /\ FreshSnapshot <= MaxSnapshot
    /\ mem' = FreshSnapshot
    /\ payload' = FreshSnapshot
    /\ prev' = disk.primary
    /\ save_pc' = "open_tmp"
    /\ UNCHANGED <<disk, saved>>

\* line 54: open(tmp_path, "w") creates or truncates the temp file
OpenTmp ==
    /\ save_pc = "open_tmp"
    /\ disk' = [disk EXCEPT !.tmp = Partial]
    /\ save_pc' = "dump"
    /\ UNCHANGED <<mem, payload, prev, saved>>

\* line 55: json.dump completes and the file is closed
DumpTmp ==
    /\ save_pc = "dump"
    /\ disk' = [disk EXCEPT !.tmp = payload]
    /\ save_pc' = "backup"
    /\ UNCHANGED <<mem, payload, prev, saved>>

\* lines 58-61: remove the old .bak when the primary exists
RemoveBak ==
    /\ save_pc = "backup"
    /\ IF exists(disk.primary)
       THEN /\ disk' = [disk EXCEPT !.bak = Absent]
            /\ save_pc' = "rotate"
       ELSE /\ UNCHANGED disk
            /\ save_pc' = "replace"
    /\ UNCHANGED <<mem, payload, prev, saved>>

\* line 62: os.replace(path, bak_path)
Rotate ==
    /\ save_pc = "rotate"
    /\ disk' = [disk EXCEPT !.bak = disk.primary, !.primary = Absent]
    /\ save_pc' = "replace"
    /\ UNCHANGED <<mem, payload, prev, saved>>

\* line 73: os.replace(tmp_path, path)
Replace ==
    /\ save_pc = "replace"
    /\ disk' = [disk EXCEPT !.primary = disk.tmp, !.tmp = Absent]
    /\ save_pc' = "saved"
    /\ saved' = payload
    /\ UNCHANGED <<mem, payload, prev>>

\* line 74: save() returns to the mutating operation
SaveReturn ==
    /\ save_pc = "saved"
    /\ save_pc' = "idle"
    /\ UNCHANGED <<disk, mem, payload, prev, saved>>

\* a failing call that no except clause catches
except_target_Propagate(site) == "raised"

\* where control goes when the file-system call at `site` raises: the inner
\* except of the backup step (lines 64-70) continues with the final rename,
\* the outer except (lines 76-82) removes the temp file
except_target(site) ==
    IF site \in {"backup", "rotate"} THEN "replace" ELSE "cleanup"

\* the file-system call at the current position raises OSError; a failed
\* json.dump leaves the temp file partially written
WriteFails ==
    /\ save_pc \in {"open_tmp", "dump", "backup", "rotate", "replace"}
    /\ save_pc = "backup" => (exists(disk.primary) /\ exists(disk.bak))
    /\ save_pc' = except_target(save_pc)
    /\ UNCHANGED <<disk, mem, payload, prev, saved>>

\* lines 78-82: remove the temp file if it exists (a failure of os.remove is
\* swallowed); save() returns normally
Cleanup ==
    /\ save_pc = "cleanup"
    /\ \E left \in {Absent, disk.tmp} : disk' = [disk EXCEPT !.tmp = left]
    /\ save_pc' = "idle"
    /\ UNCHANGED <<mem, payload, prev, saved>>

\* the process dies inside save(); the files stay as they are
Crash ==
    /\ save_pc \in {"open_tmp", "dump", "backup", "rotate", "replace", "saved"}
    /\ save_pc' = "crashed"
    /\ mem' = EmptyStore
    /\ UNCHANGED <<disk, payload, prev, saved>>

\* DataManager.__init__ of the next process: load()
Restart ==
    /\ save_pc = "crashed"
    /\ mem' = load(disk)
    /\ save_pc' = "recovered"
    /\ UNCHANGED <<disk, payload, prev, saved>>

----------------------------------------------------------------------------

\* the key is not in ADMIN_SCREEN_MESSAGES
NoKey == -1

\* the screen types of the model: two keys of the initial dictionary and
\* one ("help") that only show_admin_screen adds
FixedScreens == {"home", "inbox"}

ScreenTypes == FixedScreens \cup {"help"}

\* no call on the registry recorded
NoRender == [op |-> "", screen |-> "", text |-> None, via |-> None,
             prior |-> None, same |-> FALSE, edited |-> None, outcome |-> "",
             send |-> "", sent |-> None, result |-> None, added |-> 0,
             live |-> 0]

\* storage/instruction_store.py: the module-level dictionary
InitScreens ==
    /\ screens = [t \in ScreenTypes |-> IF t \in FixedScreens THEN None ELSE NoKey]
    /\ chat = <<>>
    /\ render = NoRender

\* no document was loaded
NoStore == [tickets |-> <<>>, users |-> {}, feedbacks |-> {}, cooldowns |-> {},
            loaded |-> FALSE]

\* DataManager.__init__: users, feedbacks and cooldowns are empty
InitTrip ==
    /\ data_rest = [users |-> {}, feedbacks |-> {}, cooldowns |-> {}]
    /\ reloaded = NoStore

\* the categories of feedback
FeedbackTypes == {"suggestion", "review"}

\* no call of check_cooldown recorded
NoCheck == [type |-> "", can_send |-> TRUE, hours |-> None, elapsed |-> -1]

\* no feedback text handled
NoFeedbackText == [user |-> None, type |-> "", skipped |-> FALSE,
                   blocked |-> FALSE, accepted |-> FALSE, turn |-> 0,
                   entry |-> [u \in Users |-> "none"],
                   regular_at |-> [u \in Users |->
                                     [k \in FeedbackTypes |-> NoTime]]]

\* DataManager.__init__ and an empty context.user_data
InitFeedback ==
    /\ clock = 0
    /\ feedback_cooldowns = [u \in Users |-> [k \in FeedbackTypes |-> NoTime]]
    /\ skip_cooldown = [u \in Users |-> FALSE]
    /\ cooldown_check = NoCheck
    /\ feedback_text = NoFeedbackText

\* no text handled
NoQuestionText == [user |-> None, len |-> 0, state |-> "", tickets |-> 0,
                   turn |-> 0]

\* no call of a TicketService method recorded
NoCall == [op |-> "", id |-> NoId, found |-> FALSE, result |-> None,
           saved |-> FALSE, turn |-> 0]

\* feedback records the model follows
MaxFeedbacks == 3

FeedbackIds == 1..MaxFeedbacks

\* no feedback was submitted
NoThanks == [f \in FeedbackIds |->
               [exists |-> FALSE, thanked |-> FALSE, message_id |-> None,
                button |-> "", sent |-> 0, flips |-> 0]]

\* BanManager over no file, nothing reloaded
NoBanStore == [banned |-> <<>>, file |-> <<>>, reloaded |-> <<>>,
               restarted |-> FALSE]

InitExt ==
    /\ svc_call = NoCall
    /\ thanks = NoThanks
    /\ ban_store = NoBanStore

\* no sweep has run
NoNotify == [closed |-> {}, log |-> <<>>]

\* the jobs post_init registers, in the order of their add_job calls: the
\* log cleanup stands for the jobs that run in an executor
Jobs == <<"cleanup_logs", "auto_close_tickets">>

\* SchedulerService.__init__
NoSched == [running |-> FALSE, tasks |-> 0, pc |-> "none", cancel |-> FALSE,
            stop_pc |-> "idle", tick_now |-> 0, cur |-> 0,
            cancelled_at |-> "",
            next_run |-> [p \in DOMAIN Jobs |-> NoTime],
            last_run |-> [p \in DOMAIN Jobs |-> NoTime],
            last_failure |-> [p \in DOMAIN Jobs |-> NoTime],
            jobs |-> {},
            items |-> [p \in DOMAIN Jobs |-> "none"],
            held_next_run |-> [p \in DOMAIN Jobs |-> NoTime],
            started |-> [p \in DOMAIN Jobs |-> NoTime],
            calls |-> [p \in DOMAIN Jobs |-> 0],
            added_at |-> [p \in DOMAIN Jobs |-> NoTime],
            immediate |-> [p \in DOMAIN Jobs |-> FALSE]]

InitSchedIdle ==
    /\ hours = 0
    /\ sched = NoSched
    /\ shutdown = "no"

InitSvc ==
    /\ InitFeedback
    /\ banned = {}
    /\ notify = NoNotify
    /\ question_text = NoQuestionText
    /\ InitExt
    /\ InitSchedIdle

InitAux ==
    /\ lookup = NoLookup
    /\ save_failed = {}
    /\ InitScreens
    /\ InitTrip
    /\ InitSvc

InitStoreIdle ==
    /\ disk = [primary |-> Absent, bak |-> Absent, tmp |-> Absent]
    /\ mem = EmptyStore
    /\ save_pc = "idle"
    /\ payload = EmptyStore
    /\ prev = Absent
    /\ saved = EmptyStore

Init ==
    /\ tickets = <<>>
    /\ now = 0
    /\ state = [c \in Chats |-> "none"]
    /\ reply_ticket_id = NoId
    /\ rate_btn = {}
    /\ sweep_pc = "idle"
    /\ sweep_now = 0
    /\ closed_tickets = <<>>
    /\ InitStoreIdle
    /\ InitAux

Next ==
    \/ \E u \in Users : StartQuestion(u) /\ UNCHANGED <<storeVars, auxVars>>
    \/ \E u \in Users, len \in TextLengths : UserText(u, len) /\ UNCHANGED <<storeVars, auxVars>>
    \/ \E u \in Users : UserMedia(u) /\ UNCHANGED <<storeVars, auxVars>>
    \/ \E tid \in TicketIds, r \in Ratings : Rate(tid, r) /\ UNCHANGED <<storeVars, auxVars>>
    \/ \E tid \in TicketIds : Take(tid) /\ UNCHANGED <<storeVars, auxVars>>
    \/ \E tid \in TicketIds : Close(tid) /\ UNCHANGED <<storeVars, auxVars>>
    \/ \E tid \in TicketIds : Reply(tid) /\ UNCHANGED <<storeVars, auxVars>>
    \/ AdminReply /\ UNCHANGED <<storeVars, auxVars>>
    \/ ClearTickets /\ UNCHANGED <<storeVars, auxVars>>
    \/ SweepScan /\ UNCHANGED <<storeVars, auxVars>>
    \/ SweepNotify /\ UNCHANGED <<storeVars, auxVars>>
    \/ SweepReturn /\ UNCHANGED <<storeVars, auxVars>>
    \/ Tick /\ UNCHANGED <<storeVars, auxVars>>

Spec == Init /\ [][Next]_vars

\* the store is saved, and the process may crash, while no handler runs
NextSave ==
    \/ Mutate /\ UNCHANGED <<ticketVars, auxVars>>
    \/ OpenTmp /\ UNCHANGED <<ticketVars, auxVars>>
    \/ DumpTmp /\ UNCHANGED <<ticketVars, auxVars>>
    \/ RemoveBak /\ UNCHANGED <<ticketVars, auxVars>>
    \/ Rotate /\ UNCHANGED <<ticketVars, auxVars>>
    \/ Replace /\ UNCHANGED <<ticketVars, auxVars>>
    \/ SaveReturn /\ UNCHANGED <<ticketVars, auxVars>>
    \/ Crash /\ UNCHANGED <<ticketVars, auxVars>>
    \/ Restart /\ UNCHANGED <<ticketVars, auxVars>>

SpecSave == Init /\ [][NextSave]_vars

\* the store is saved while any file-system call may fail
NextFail ==
    \/ Mutate /\ UNCHANGED <<ticketVars, auxVars>>
    \/ OpenTmp /\ UNCHANGED <<ticketVars, auxVars>>
    \/ DumpTmp /\ UNCHANGED <<ticketVars, auxVars>>
    \/ RemoveBak /\ UNCHANGED <<ticketVars, auxVars>>
    \/ Rotate /\ UNCHANGED <<ticketVars, auxVars>>
    \/ Replace /\ UNCHANGED <<ticketVars, auxVars>>
    \/ SaveReturn /\ UNCHANGED <<ticketVars, auxVars>>
    \/ WriteFails /\ UNCHANGED <<ticketVars, auxVars>>
    \/ Cleanup /\ UNCHANGED <<ticketVars, auxVars>>

SpecFail == Init /\ [][NextFail]_vars

----------------------------------------------------------------------------
(* get_user_active_ticket on stores of two users: the stores are built by  *)
(* the ticket operations themselves, in creation order.                    *)

LookupUsers == {1, 2}

MaxLookupTickets == 3

\* what the k-th creation of a drawn store is: who created it, when, and
\* which status the ticket has reached
Drafts == [user_id : LookupUsers, created_at : 0..MaxTime,
           status : {"new", "working", "done"}]

DraftSeqs ==
    {ds \in UNION {[1..n -> Drafts] : n \in 0..MaxLookupTickets} :
        \A k \in 1..(Len(ds) - 1) : ds[k].created_at <= ds[k + 1].created_at}

RECURSIVE BuildStore(_)
BuildStore(ds) ==
    IF Len(ds) = 0 THEN <<>>
    ELSE LET d == ds[Len(ds)]
             ts == create_ticket(BuildStore(SubSeq(ds, 1, Len(ds) - 1)),
                                 d.created_at, d.user_id)
             i == Len(ts)
         IN  IF d.status = "working" THEN take_ticket(ts, d.created_at, i, ADMIN_ID)
             ELSE IF d.status = "done" THEN close_ticket(ts, d.created_at, i)
             ELSE ts

InitActive ==
    /\ tickets \in {BuildStore(ds) : ds \in DraftSeqs}
    /\ now = MaxTime
    /\ state = [c \in Chats |-> "none"]
    /\ reply_ticket_id = NoId
    /\ rate_btn = {}
    /\ sweep_pc = "idle"
    /\ sweep_now = 0
    /\ closed_tickets = <<>>
    /\ InitStoreIdle
    /\ InitAux

\* a handler calls ticket_service.get_user_active_ticket(user.id)
Lookup(u) ==
    /\ lookup' = [user |-> u, result |-> get_user_active_ticket(tickets, u)]
    /\ UNCHANGED <<ticketVars, storeVars, save_failed, screenVars, tripVars, svcVars>>

NextActive == \E u \in LookupUsers : Lookup(u)

SpecActive == InitActive /\ [][NextActive]_vars

----------------------------------------------------------------------------
(* DataManager.load at start-up, for every content of the three files *)

FileKinds == {Absent, Partial, Unparsable} \cup (1..MaxSnapshot)

\* the process is not running; the files are what earlier runs, the operator
\* or the file system left
InitLoad ==
    /\ tickets = <<>>
    /\ now = 0
    /\ state = [c \in Chats |-> "none"]
    /\ reply_ticket_id = NoId
    /\ rate_btn = {}
    /\ sweep_pc = "idle"
    /\ sweep_now = 0
    /\ closed_tickets = <<>>
    /\ disk \in [primary : FileKinds, bak : FileKinds, tmp : FileKinds]
    /\ mem = EmptyStore
    /\ save_pc = "crashed"
    /\ payload = EmptyStore
    /\ prev = Absent
    /\ saved = EmptyStore
    /\ InitAux

NextLoad == Restart /\ UNCHANGED <<ticketVars, auxVars>>

SpecLoad == InitLoad /\ [][NextLoad]_vars

----------------------------------------------------------------------------
(* DataManager.save followed by DataManager.load: the document and back *)

MaxChatTickets == 2

\* str(user_id), the key of data["users"] and data["feedback_cooldowns"]
Str(n) == Digits(n)

\* JSON null in a timestamp slot
Null == <<>>

\* datetime.isoformat() of the timestamp fields, None stays None
isoformat(t) == IF t = NoTime THEN Null ELSE Digits(t)

\* datetime.fromisoformat() of the timestamp fields
fromisoformat(str) == IF str = Null THEN NoTime ELSE ParseNum(str)

\* Ticket.to_dict
to_dict(t) ==
    [id |-> t.id,
     user_id |-> t.user_id,
     created_at |-> isoformat(t.created_at),
     status |-> t.status,
     messages |-> [k \in DOMAIN t.messages |-> [sender |-> t.messages[k].sender]],
     last_activity_at |-> isoformat(t.last_activity_at),
     last_actor |-> t.last_actor,
     assigned |-> t.assigned,
     first_response_at |-> isoformat(t.first_response_at),
     rated |-> t.rated,
     rating |-> t.rating]

\* Ticket.from_dict
from_dict(d) ==
    [id |-> d.id,
     user_id |-> d.user_id,
     created_at |-> fromisoformat(d.created_at),
     status |-> d.status,
     messages |-> [k \in DOMAIN d.messages |-> Message(d.messages[k].sender)],
     last_activity_at |-> fromisoformat(d.last_activity_at),
     last_actor |-> d.last_actor,
     assigned |-> d.assigned,
     first_response_at |-> fromisoformat(d.first_response_at),
     rated |-> d.rated,
     rating |-> d.rating]

\* DataManager.save: the document handed to _safe_write_json
save_output(ts, rest) ==
    [tickets |-> [i \in DOMAIN ts |-> to_dict(ts[i])],
     users |-> rest.users,
     feedbacks |-> rest.feedbacks,
     feedback_cooldowns |-> rest.cooldowns]

\* load that forgets the key "feedback_cooldowns"
load_store_NoCooldowns(raw) ==
    [tickets |-> [i \in DOMAIN raw.tickets |-> from_dict(raw.tickets[i])],
     users |-> raw.users,
     feedbacks |-> raw.feedbacks,
     cooldowns |-> {},
     loaded |-> TRUE]

\* DataManager.load, lines 107-128: the store built from the raw document
load_store(raw) ==
    [tickets |-> [i \in DOMAIN raw.tickets |-> from_dict(raw.tickets[i])],
     users |-> raw.users,
     feedbacks |-> raw.feedbacks,
     cooldowns |-> raw.feedback_cooldowns,
     loaded |-> TRUE]

\* a conversation of the store: who opened it, when, how far the exchange
\* went (0: the question, 1: a support reply, 2: the user's answer to it)
\* and the status the ticket has reached
ChatDrafts == [user_id : LookupUsers, created_at : 0..MaxTime,
               replies : 0..2, status : {"new", "working", "done"}]

ChatDraftSeqs ==
    {ds \in UNION {[1..n -> ChatDrafts] : n \in 0..MaxChatTickets} :
        \A k \in 1..(Len(ds) - 1) : ds[k].created_at <= ds[k + 1].created_at}

RECURSIVE BuildChats(_)
\* the store after the TicketService calls of the drafts, in order
BuildChats(ds) ==
    IF Len(ds) = 0 THEN <<>>
    ELSE LET d == ds[Len(ds)]
             t == d.created_at
             t0 == create_ticket(BuildChats(SubSeq(ds, 1, Len(ds) - 1)),
                                 t, d.user_id)
             i == Len(t0)
             t1 == IF d.status # "new" THEN take_ticket(t0, t, i, ADMIN_ID) ELSE t0
             t2 == IF d.replies >= 1
                   THEN add_message(t1, t, i, "support", ADMIN_ID) ELSE t1
             t3 == IF d.replies >= 2
                   THEN add_message(t2, t, i, "user", None) ELSE t2
         IN  IF d.status = "done" THEN close_ticket(t3, t, i) ELSE t3

\* records of data["users"], data["feedbacks"], data["feedback_cooldowns"]
\* as get_user_data / set_user_locale, create_feedback and
\* set_feedback_cooldown store them
RestStores ==
    [users : SUBSET {[key |-> Str(1), locale |-> "en"],
                     [key |-> Str(2), locale |-> "ru"]},
     feedbacks : SUBSET {[id |-> "sug_1", user_id |-> 1, thanked |-> FALSE,
                          message_id |-> None, created_at |-> isoformat(0)]},
     cooldowns : SUBSET {[key |-> Str(1), type |-> "review", at |-> isoformat(1)]}]

InitTripDrawn ==
    /\ tickets \in {BuildChats(ds) : ds \in ChatDraftSeqs}
    /\ now = MaxTime
    /\ state = [c \in Chats |-> "none"]
    /\ reply_ticket_id = NoId
    /\ rate_btn = {}
    /\ sweep_pc = "idle"
    /\ sweep_now = 0
    /\ closed_tickets = <<>>
    /\ InitStoreIdle
    /\ lookup = NoLookup
    /\ save_failed = {}
    /\ InitScreens
    /\ InitSvc
    /\ data_rest \in RestStores
    /\ reloaded = NoStore

\* save() writes the document, the next process load()s it
SaveLoad ==
    /\ ~reloaded.loaded
    /\ reloaded' = load_store(save_output(tickets, data_rest))
    /\ UNCHANGED <<ticketVars, storeVars, lookup, save_failed, screenVars, data_rest,
                 svcVars>>

NextTrip == SaveLoad

SpecTrip == InitTripDrawn /\ [][NextTrip]_vars

----------------------------------------------------------------------------
(* The sweep loop when the save() inside update_ticket cannot write *)

\* lines 30-86 when, for the tickets of `failed`, the save() called by
\* data_manager.update_ticket(ticket) fails: save() logs the error and
\* returns, the loop goes on as after a successful write
SweepScanUnsaved ==
    /\ SweepScan
    /\ save_failed' \in SUBSET {tickets[i].id : i \in
                                  {j \in DOMAIN tickets :
                                      AutoCloseEligible(tickets[j], now)}}

InitSweep ==
    /\ tickets \in {BuildChats(ds) : ds \in ChatDraftSeqs}
    /\ now = MaxTime
    /\ state = [c \in Chats |-> "none"]
    /\ reply_ticket_id = NoId
    /\ rate_btn = {}
    /\ sweep_pc = "idle"
    /\ sweep_now = 0
    /\ closed_tickets = <<>>
    /\ InitStoreIdle
    /\ InitAux

NextSweep ==
    \/ SweepScanUnsaved /\ UNCHANGED <<storeVars, lookup, screenVars, tripVars, svcVars>>
    \/ SweepNotify /\ UNCHANGED <<storeVars, auxVars>>
    \/ SweepReturn /\ save_failed' = {}
                   /\ UNCHANGED <<storeVars, lookup, screenVars, tripVars, svcVars>>

SpecSweep == InitSweep /\ [][NextSweep]_vars

----------------------------------------------------------------------------
(* The read operations of the DataManager *)

\* the users whose record is read: two regular users and the admin
ReadUsers == LookupUsers \cup {ADMIN_ID}

\* str(user_id) in self.data["users"]
HasUserRecord(u) == \E r \in data_rest.users : r.key = Str(u)

\* DataManager.get_user_data: a missing record is created with the default
\* fields and the store is saved
GetUserData(u) ==
    /\ save_pc = "idle"
    /\ IF HasUserRecord(u)
       THEN UNCHANGED <<data_rest, storeVars>>
       ELSE /\ data_rest' = [data_rest EXCEPT
                                !.users = @ \cup {[key |-> Str(u), locale |-> ""]}]
            /\ Mutate
    /\ UNCHANGED <<ticketVars, lookup, save_failed, screenVars, reloaded, svcVars>>

\* get_ticket, get_all_tickets, get_tickets_by_status, get_feedback,
\* get_feedback_cooldown, get_stats: dictionary lookups and comprehensions
PureRead ==
    /\ save_pc = "idle"
    /\ UNCHANGED vars

\* a store that earlier operations filled and saved once
InitRead ==
    /\ tickets = <<>>
    /\ now = 0
    /\ state = [c \in Chats |-> "none"]
    /\ reply_ticket_id = NoId
    /\ rate_btn = {}
    /\ sweep_pc = "idle"
    /\ sweep_now = 0
    /\ closed_tickets = <<>>
    /\ disk = [primary |-> 1, bak |-> Absent, tmp |-> Absent]
    /\ mem = 1
    /\ save_pc = "idle"
    /\ payload = 1
    /\ prev = Absent
    /\ saved = 1
    /\ lookup = NoLookup
    /\ save_failed = {}
    /\ InitScreens
    /\ InitSvc
    /\ data_rest \in RestStores
    /\ reloaded = NoStore

NextRead ==
    \/ \E u \in ReadUsers : GetUserData(u)
    \/ PureRead
    \/ OpenTmp /\ UNCHANGED <<ticketVars, auxVars>>
    \/ DumpTmp /\ UNCHANGED <<ticketVars, auxVars>>
    \/ RemoveBak /\ UNCHANGED <<ticketVars, auxVars>>
    \/ Rotate /\ UNCHANGED <<ticketVars, auxVars>>
    \/ Replace /\ UNCHANGED <<ticketVars, auxVars>>
    \/ SaveReturn /\ UNCHANGED <<ticketVars, auxVars>>

SpecRead == InitRead /\ [][NextRead]_vars

----------------------------------------------------------------------------
(* Admin screens: utils/admin_screen.py over storage/instruction_store.py *)

\* messages the admin chat can hold
MaxScreenMessages == 2

\* distinct (text, keyboard) contents a screen can be rendered with
MaxTexts == 2

Texts == 1..MaxTexts

\* ADMIN_SCREEN_MESSAGES.get(screen_type): None for a missing key
registry_get(reg, t) == IF reg[t] = NoKey THEN None ELSE reg[t]

\* the message show_admin_screen tries to edit: the message of the pressed
\* button when there is one, else the registry's entry
current_msg_id(reg, t, via) == IF via # None THEN via ELSE registry_get(reg, t)

\* bot.edit_message_text: raises on a transport failure, raises "Message is
\* not modified" when the message already shows the content
edit_message_text(msgs, m, content, fault) ==
    IF fault THEN "error"
    ELSE IF msgs[m] = content THEN "not_modified"
    ELSE "ok"

after_edit_OkOnly(outcome) == IF outcome = "ok" THEN "return" ELSE "send"

\* what follows the edit attempt: return the edited ID or go on to send
after_edit(outcome) ==
    IF outcome \in {"ok", "not_modified"} THEN "return" ELSE "send"

after_send_Clear(entry, send, id) == IF send = "ok" THEN id ELSE None

\* the registry entry after the send attempt
after_send(entry, send, id) == IF send = "ok" THEN id ELSE entry

\* reset of one entry: only an existing key is set to None
reset_entry(entry) == IF entry = NoKey THEN NoKey ELSE None

clear_all_Fixed(reg) ==
    [t \in ScreenTypes |-> IF t \in FixedScreens THEN None ELSE reg[t]]

\* for key in ADMIN_SCREEN_MESSAGES: ADMIN_SCREEN_MESSAGES[key] = None
clear_all(reg) == [t \in ScreenTypes |-> reset_entry(reg[t])]

\* the messages of the chat that show screen t
Showing(msgs, t) == {m \in 1..Len(msgs) : msgs[m].screen = t}

\* show_admin_screen(update, context, text, keyboard, screen_type): via is
\* the message whose button was pressed (None for a plain message or
\* command), the faults are the transport's failures of the edit and the send
show_admin_screen(t, x, via, edit_fault, send_fault) ==
    LET content == [screen |-> t, text |-> x]
        prior == screens[t]
        target == current_msg_id(screens, t, via)
        outcome == IF target # None
                   THEN edit_message_text(chat, target, content, edit_fault)
                   ELSE ""
        sends == target = None \/ after_edit(outcome) = "send"
        send == IF ~sends THEN "" ELSE IF send_fault THEN "failed" ELSE "ok"
        new_id == Len(chat) + 1
        entry == IF sends THEN after_send(prior, send, new_id) ELSE target
        msgs == IF send = "ok" THEN Append(chat, content)
                ELSE IF outcome = "ok" THEN [chat EXCEPT ![target] = content]
                ELSE chat
    IN  /\ send = "ok" => Len(chat) < MaxScreenMessages
        /\ chat' = msgs
        /\ screens' = [screens EXCEPT ![t] = entry]
        /\ render' = [op |-> "show", screen |-> t, text |-> x, via |-> via,
                      prior |-> prior,
                      same |-> registry_get(screens, t) # None
                               /\ chat[registry_get(screens, t)] = content,
                      edited |-> target, outcome |-> outcome,
                      send |-> send,
                      sent |-> IF send = "ok" THEN new_id ELSE None,
                      result |-> IF ~sends THEN target
                                 ELSE IF send = "ok" THEN new_id ELSE None,
                      added |-> Len(msgs) - Len(chat),
                      live |-> Cardinality(Showing(msgs, t))]

\* reset_admin_screen(context, screen_type) and reset_screen(screen_type)
reset_admin_screen(t) ==
    /\ screens' = [screens EXCEPT ![t] = reset_entry(@)]
    /\ render' = [NoRender EXCEPT !.op = "reset", !.screen = t,
                                  !.prior = screens[t]]
    /\ UNCHANGED chat

\* clear_all_admin_screens(context) and reset_all_screens()
clear_all_admin_screens ==
    /\ screens' = clear_all(screens)
    /\ render' = [NoRender EXCEPT !.op = "reset_all"]
    /\ UNCHANGED chat

NextScreen ==
    \/ /\ \E t \in ScreenTypes, x \in Texts, via \in {None} \cup 1..Len(chat),
             edit_fault \in BOOLEAN, send_fault \in BOOLEAN :
               show_admin_screen(t, x, via, edit_fault, send_fault)
       /\ UNCHANGED <<ticketVars, storeVars, lookup, save_failed, tripVars,
                    svcVars>>
    \/ /\ \E t \in ScreenTypes : reset_admin_screen(t)
       /\ UNCHANGED <<ticketVars, storeVars, lookup, save_failed, tripVars,
                    svcVars>>
    \/ /\ clear_all_admin_screens
       /\ UNCHANGED <<ticketVars, storeVars, lookup, save_failed, tripVars,
                    svcVars>>

SpecScreen == Init /\ [][NextScreen]_vars

----------------------------------------------------------------------------
(* Feedback cooldown: services/feedback.py and the feedback handlers *)

\* resolution of the feedback clock: ticks per second
TicksPerSecond == 2

FEEDBACK_COOLDOWN_ENABLED == TRUE

FEEDBACK_COOLDOWN_HOURS == 24

\* hours the clock of SpecCooldown runs after the recorded submission
MaxClockHours == 25

\* half-days the clock of SpecFeedback runs
MaxHalfDays == 3

\* one hour (3600 seconds) in ticks
HourTicks == 3600 * TicksPerSecond

\* need = FEEDBACK_COOLDOWN_HOURS * 3600, in ticks
need == FEEDBACK_COOLDOWN_HOURS * HourTicks

\* int((need - elapsed + 3599) // 3600), elapsed in ticks
remaining_hours(elapsed) ==
    (need - elapsed + 3599 * TicksPerSecond) \div HourTicks

\* the result (True, None)
Allowed == [can_send |-> TRUE, hours |-> None]

\* FeedbackService.check_cooldown(user_id, feedback_type) at time t
check_cooldown(cd, u, k, t) ==
    IF ~FEEDBACK_COOLDOWN_ENABLED THEN Allowed
    ELSE IF cd[u][k] = NoTime THEN Allowed
    ELSE LET elapsed == t - cd[u][k]
         IN  IF elapsed >= need THEN Allowed
             ELSE [can_send |-> FALSE, hours |-> remaining_hours(elapsed)]

\* FeedbackService.update_last_feedback at time t
update_last_feedback(cd, u, k, t) == [cd EXCEPT ![u][k] = t]

\* a call of check_cooldown at the current time, recorded
CheckRecord(u, k, t) ==
    LET r == check_cooldown(feedback_cooldowns, u, k, t)
    IN  [type |-> k, can_send |-> r.can_send, hours |-> r.hours,
         elapsed |-> IF feedback_cooldowns[u][k] = NoTime THEN NoTime
                     ELSE t - feedback_cooldowns[u][k]]

\* the instants at which check_cooldown is called: a whole number of hours
\* after the start, the tick after it and the tick before the next hour
CheckTimes ==
    {h * HourTicks + f : h \in 0..(MaxClockHours - 1), f \in {0, 1, HourTicks - 1}}

\* check_cooldown is called at time t, not before the previous call
CheckLater(u, k, t) ==
    /\ t >= clock
    /\ clock' = t
    /\ cooldown_check' = CheckRecord(u, k, t)
    /\ UNCHANGED <<feedback_cooldowns, skip_cooldown, feedback_text>>
    /\ UNCHANGED <<ticketVars, storeVars, lookup, save_failed, screenVars,
                   tripVars, banned, notify, schedVars,
                   question_text, extVars>>

\* a suggestion was recorded at T0, the clock reads T0
InitCooldown ==
    /\ tickets = <<>>
    /\ now = 0
    /\ state = [c \in Chats |-> "none"]
    /\ reply_ticket_id = NoId
    /\ rate_btn = {}
    /\ sweep_pc = "idle"
    /\ sweep_now = 0
    /\ closed_tickets = <<>>
    /\ InitStoreIdle
    /\ lookup = NoLookup
    /\ save_failed = {}
    /\ InitScreens
    /\ InitTrip
    /\ clock \in {0, 1}
    /\ feedback_cooldowns =
         [u \in Users |-> [k \in FeedbackTypes |->
                             IF k = "suggestion" THEN clock ELSE NoTime]]
    /\ skip_cooldown = [u \in Users |-> FALSE]
    /\ cooldown_check = NoCheck
    /\ feedback_text = NoFeedbackText
    /\ banned = {}
    /\ notify = NoNotify
    /\ question_text = NoQuestionText
    /\ InitExt
    /\ InitSchedIdle

NextCooldown ==
    \E u \in Users, k \in FeedbackTypes, t \in CheckTimes : CheckLater(u, k, t)

SpecCooldown == InitCooldown /\ [][NextCooldown]_vars

\* the conversation states in which a feedback text is expected
AwaitingFeedback(k) ==
    IF k = "suggestion" THEN "awaiting_suggestion" ELSE "awaiting_review"

\* callback_handler, after_rate_suggestion / after_rate_review
AfterRatePrompt(u, k) ==
    /\ state' = [state EXCEPT ![u] = AwaitingFeedback(k)]
    /\ skip_cooldown' = [skip_cooldown EXCEPT ![u] = TRUE]
    /\ feedback_text' = [feedback_text EXCEPT !.entry[u] = "prompt"]
    /\ UNCHANGED <<clock, feedback_cooldowns, cooldown_check>>

\* callback_handler, user_suggestion / user_review
MenuFeedback(u, k) ==
    /\ cooldown_check' = CheckRecord(u, k, clock)
    /\ state' = [state EXCEPT ![u] =
                   IF check_cooldown(feedback_cooldowns, u, k, clock).can_send
                   THEN AwaitingFeedback(k) ELSE "none"]
    /\ feedback_text' = [feedback_text EXCEPT !.entry[u] =
                           IF check_cooldown(feedback_cooldowns, u, k,
                                             clock).can_send
                           THEN "menu" ELSE "none"]
    /\ UNCHANGED <<clock, feedback_cooldowns, skip_cooldown>>

skip_after_accept_Keep(flag) == flag

\* context.user_data["skip_cooldown"] = False
skip_after_accept(flag) == FALSE

\* handle_suggestion_text / handle_review_text
handle_feedback_text(u, k) ==
    LET skip == skip_cooldown[u]
        r == check_cooldown(feedback_cooldowns, u, k, clock)
        blocked == ~skip /\ ~r.can_send
    IN  /\ state[u] = AwaitingFeedback(k)
        /\ cooldown_check' = IF skip THEN cooldown_check
                             ELSE CheckRecord(u, k, clock)
        /\ feedback_cooldowns' =
             IF ~skip /\ ~blocked
             THEN update_last_feedback(feedback_cooldowns, u, k, clock)
             ELSE feedback_cooldowns
        /\ state' = IF blocked THEN state ELSE [state EXCEPT ![u] = "none"]
        /\ skip_cooldown' =
             IF blocked THEN skip_cooldown
             ELSE [skip_cooldown EXCEPT ![u] = skip_after_accept(@)]
        /\ feedback_text' = [user |-> u, type |-> k, skipped |-> skip,
                             blocked |-> blocked, accepted |-> ~blocked,
                             turn |-> 1 - feedback_text.turn,
                             entry |-> IF blocked THEN feedback_text.entry
                                       ELSE [feedback_text.entry
                                                EXCEPT ![u] = "none"],
                             regular_at |->
                                 IF ~blocked /\ feedback_text.entry[u] = "menu"
                                 THEN [feedback_text.regular_at
                                          EXCEPT ![u][k] = clock]
                                 ELSE feedback_text.regular_at]
        /\ UNCHANGED clock

\* twelve hours pass
HalfDay ==
    /\ clock + 12 * HourTicks <= MaxHalfDays * 12 * HourTicks
    /\ clock' = clock + 12 * HourTicks
    /\ UNCHANGED <<state, feedback_cooldowns, skip_cooldown, cooldown_check,
                   feedback_text>>

feedbackRest == <<tickets, now, reply_ticket_id, rate_btn, sweep_pc, sweep_now,
                  closed_tickets, storeVars, lookup, save_failed, screenVars,
                  tripVars>>

feedbackOthers == <<feedbackRest, banned, notify, schedVars,
                   question_text, extVars>>

NextFeedback ==
    \/ \E u \in Users, k \in FeedbackTypes :
         AfterRatePrompt(u, k) /\ UNCHANGED feedbackOthers
    \/ \E u \in Users, k \in FeedbackTypes :
         MenuFeedback(u, k) /\ UNCHANGED feedbackOthers
    \/ \E u \in Users, k \in FeedbackTypes :
         handle_feedback_text(u, k) /\ UNCHANGED feedbackOthers
    \/ HalfDay /\ UNCHANGED feedbackOthers

SpecFeedback == Init /\ [][NextFeedback]_vars

----------------------------------------------------------------------------
(* Bans: services/bans.py and the gates of the user entry points *)

\* BanManager.is_banned
is_banned(b, u) == u \in b

\* admin_text_handler, STATE_AWAITING_BAN_REASON: ban_manager.ban_user
BanUser(u) ==
    /\ ~is_banned(banned, u)
    /\ banned' = banned \cup {u}
    /\ state' = [state EXCEPT ![ADMIN_ID] = "none"]
    /\ UNCHANGED <<tickets, now, reply_ticket_id, rate_btn, sweep_pc, sweep_now,
                   closed_tickets, storeVars, lookup, save_failed, screenVars,
                   tripVars, feedbackVars, notify, schedVars,
                   question_text, extVars>>

\* admin_text_handler, STATE_AWAITING_UNBAN_USER_ID: ban_manager.unban_user
UnbanUser(u) ==
    /\ is_banned(banned, u)
    /\ banned' = banned \ {u}
    /\ state' = [state EXCEPT ![ADMIN_ID] = "none"]
    /\ UNCHANGED <<tickets, now, reply_ticket_id, rate_btn, sweep_pc, sweep_now,
                   closed_tickets, storeVars, lookup, save_failed, screenVars,
                   tripVars, feedbackVars, notify, schedVars,
                   question_text, extVars>>

\* start: the ban check comes first, then the user's record is loaded
StartCommand(u) ==
    IF is_banned(banned, u) THEN save_pc = "idle" /\ UNCHANGED vars
    ELSE GetUserData(u)

\* text_message_handler behind its ban check
GatedText(u, len) ==
    /\ save_pc = "idle"
    /\ IF is_banned(banned, u) THEN UNCHANGED ticketVars ELSE UserText(u, len)
    /\ UNCHANGED <<storeVars, auxVars>>

\* media_handler behind its ban check
GatedMedia(u) ==
    /\ save_pc = "idle"
    /\ IF is_banned(banned, u) THEN UNCHANGED ticketVars ELSE UserMedia(u)
    /\ UNCHANGED <<storeVars, auxVars>>

\* callback_handler routes every button without a ban check
UserCallback(u) ==
    /\ save_pc = "idle"
    /\ \/ StartQuestion(u) /\ UNCHANGED <<storeVars, auxVars>>
       \/ \E tid \in TicketIds, r \in Ratings :
            Rate(tid, r) /\ UNCHANGED <<storeVars, auxVars>>
       \/ \E k \in FeedbackTypes :
            /\ AfterRatePrompt(u, k)
            /\ UNCHANGED feedbackOthers

\* the stores of at most one conversation
BanDraftSeqs == {ds \in ChatDraftSeqs : Len(ds) <= 1}

\* a store with earlier conversations that was saved once, the rating
\* keyboards sent for the closed ones, and any set of banned users
InitBan ==
    /\ tickets \in {BuildChats(ds) : ds \in BanDraftSeqs}
    /\ now = MaxTime
    /\ state = [c \in Chats |-> "none"]
    /\ reply_ticket_id = NoId
    /\ rate_btn = {tickets[i].id : i \in {j \in DOMAIN tickets :
                                             tickets[j].status = "done"}}
    /\ sweep_pc = "idle"
    /\ sweep_now = 0
    /\ closed_tickets = <<>>
    /\ disk = [primary |-> 1, bak |-> Absent, tmp |-> Absent]
    /\ mem = 1
    /\ save_pc = "idle"
    /\ payload = 1
    /\ prev = Absent
    /\ saved = 1
    /\ lookup = NoLookup
    /\ save_failed = {}
    /\ InitScreens
    /\ InitTrip
    /\ InitFeedback
    /\ banned \in SUBSET Users
    /\ notify = NoNotify
    /\ question_text = NoQuestionText
    /\ InitExt
    /\ InitSchedIdle

NextBan ==
    \/ \E u \in Users : BanUser(u)
    \/ \E u \in Users : UnbanUser(u)
    \/ \E u \in Users : StartCommand(u)
    \/ \E u \in Users, len \in TextLengths : GatedText(u, len)
    \/ \E u \in Users : GatedMedia(u)
    \/ \E u \in Users : UserCallback(u)
    \/ OpenTmp /\ UNCHANGED <<ticketVars, auxVars>>
    \/ DumpTmp /\ UNCHANGED <<ticketVars, auxVars>>
    \/ RemoveBak /\ UNCHANGED <<ticketVars, auxVars>>
    \/ Rotate /\ UNCHANGED <<ticketVars, auxVars>>
    \/ Replace /\ UNCHANGED <<ticketVars, auxVars>>
    \/ SaveReturn /\ UNCHANGED <<ticketVars, auxVars>>

SpecBan == InitBan /\ [][NextBan]_vars

----------------------------------------------------------------------------
(* Notifications of the sweep: auto_close_inactive_tickets, lines 88-152 *)

on_send_error_Abort(site) == "abort"

\* what follows a failed send: each send sits in its own try/except, which
\* logs and goes on with the next statement
on_send_error(site) == "next"

\* the sends for one entry of closed_tickets and whether the loop was left
notify_sends(info, ts, admin_fault, user_fault) ==
    LET found == get_ticket(ts, info.id) # None
        admin == IF found
                 THEN <<[id |-> info.id, to |-> "admin", ok |-> ~admin_fault]>>
                 ELSE <<>>
        left == found /\ admin_fault /\ on_send_error("admin") = "abort"
        user == IF left THEN <<>>
                ELSE <<[id |-> info.id, to |-> "user", ok |-> ~user_fault]>>
    IN  [log |-> admin \o user,
         aborted |-> left \/ (user_fault /\ on_send_error("user") = "abort")]

\* lines 30-86, and the tickets this sweep closed
SweepScanLogged ==
    /\ SweepScan
    /\ notify' = [closed |-> {closed_tickets'[k].id : k \in DOMAIN closed_tickets'},
                  log |-> <<>>]

\* lines 93-152 for the head of closed_tickets, with the sends that fail
SweepNotifySends(admin_fault, user_fault) ==
    LET r == notify_sends(Head(closed_tickets), tickets, admin_fault, user_fault)
    IN  /\ sweep_pc = "notify"
        /\ notify' = [notify EXCEPT !.log = @ \o r.log]
        /\ IF r.aborted
           THEN /\ closed_tickets' = <<>>
                /\ sweep_pc' = "return"
                /\ UNCHANGED <<tickets, now, state, reply_ticket_id, rate_btn,
                               sweep_now>>
           ELSE SweepNotify

notifyRest == <<storeVars, lookup, save_failed, screenVars, tripVars,
                feedbackVars, banned, schedVars, question_text, extVars>>

NextNotify ==
    \/ SweepScanLogged /\ UNCHANGED notifyRest
    \/ \E admin_fault \in BOOLEAN, user_fault \in BOOLEAN :
         SweepNotifySends(admin_fault, user_fault) /\ UNCHANGED notifyRest
    \/ SweepReturn /\ UNCHANGED <<notify, notifyRest>>

SpecNotify == InitSweep /\ [][NextNotify]_vars

----------------------------------------------------------------------------
(* The conversation of a user who asks questions, with the last text the   *)
(* text handler received on record.                                        *)

\* text_message_handler with its input and the state it found
AskedText(u, len) ==
    /\ UserText(u, len)
    /\ question_text' = [user |-> u, len |-> len, state |-> state[u],
                         tickets |-> Len(tickets),
                         turn |-> 1 - question_text.turn]

askRest == <<storeVars, lookup, save_failed, screenVars, tripVars,
             feedbackVars, banned, notify, schedVars, extVars>>

askOthers == <<askRest, question_text>>

NextAsk ==
    \/ \E u \in Users : StartQuestion(u) /\ UNCHANGED askOthers
    \/ \E u \in Users, len \in TextLengths :
         AskedText(u, len) /\ UNCHANGED askRest
    \/ \E u \in Users : UserMedia(u) /\ UNCHANGED askOthers
    \/ \E tid \in TicketIds : Take(tid) /\ UNCHANGED askOthers
    \/ \E tid \in TicketIds : Reply(tid) /\ UNCHANGED askOthers
    \/ AdminReply /\ UNCHANGED askOthers
    \/ \E tid \in TicketIds : Close(tid) /\ UNCHANGED askOthers
    \/ Tick /\ UNCHANGED askOthers

SpecAsk == Init /\ [][NextAsk]_vars

----------------------------------------------------------------------------
(* SchedulerService (services/scheduler.py), the jobs of post_init and     *)
(* post_shutdown. The loop task runs from one await to the next in one     *)
(* step; the scheduler's clock counts hours, the sweeper reads the day.    *)

\* interval_seconds of the cleanup_logs and auto_close_tickets jobs
JOB_INTERVAL_SECONDS == 3600

\* hours the scheduler's clock runs on after FirstSilentHour
MaxSchedHours == 3

HoursPerDay == 24

\* the hour at which every drawn ticket has been silent for longer than
\* AUTO_CLOSE_AFTER_HOURS
FirstSilentHour == (MaxTime + AutoCloseWindow + 1) * HoursPerDay

\* the last hour of the scheduler's clock
MaxHours == FirstSilentHour + MaxSchedHours

\* timedelta(seconds=job_info["interval"]), in hours
Interval(p) == JOB_INTERVAL_SECONDS \div 3600

\* run_immediately of the add_job call
RunImmediately(p) == Jobs[p] = "auto_close_tickets"

\* add_job: the first next_run of a job added at time t
add_job(p, t, run_immediately) ==
    IF run_immediately THEN t ELSE t + Interval(p)

\* list(self.jobs.items()): the job_info objects the tick iterates over. An
\* entry is "live" while self.jobs still holds that object and "stale" once
\* remove_job or an overwriting add_job has taken it out of self.jobs
list_items(s) == [p \in DOMAIN Jobs |-> IF p \in s.jobs THEN "live" ELSE "none"]

\* job_info.get("next_run") of the object the tick holds for position p
held_next_run(s, p) ==
    IF s.items[p] = "live" THEN s.next_run[p] ELSE s.held_next_run[p]

\* job_info["next_run"] = t on the object the tick holds for position p
set_next_run(s, p, t) ==
    IF s.items[p] = "live" THEN [s EXCEPT !.next_run[p] = t]
    ELSE [s EXCEPT !.held_next_run[p] = t]

is_due_Never(t, next_run) == FALSE

\* now >= next_run
is_due(t, next_run) == t >= next_run

\* the job returned: last_run and next_run are set from the tick's now
job_completed(s, p) ==
    LET s1 == set_next_run(s, p, s.tick_now + Interval(p))
    IN  IF s.items[p] = "live" THEN [s1 EXCEPT !.last_run[p] = s.tick_now]
        ELSE s1

job_failed_NotRescheduled(s, p) == [s EXCEPT !.last_failure[p] = s.tick_now]

\* the job raised: logged, next_run is set from the tick's now
job_failed(s, p) ==
    [set_next_run(s, p, s.tick_now + Interval(p))
        EXCEPT !.last_failure[p] = s.tick_now]

\* await job_info["func"]() is entered for position p: the tick's time and
\* the parity of the number of calls are recorded
invoke(s, p) ==
    [s EXCEPT !.started[p] = s.tick_now, !.calls[p] = 1 - @]

RECURSIVE run_jobs(_, _, _, _)
\* the for loop over the jobs from position p up to the next await: the
\* sleep after the last job, or an await inside a job. The sweeper awaits
\* only when it closed a ticket; the executor jobs always await.
run_jobs(p, s, ts, t) ==
    IF p > Len(Jobs)
    THEN [sched |-> [s EXCEPT !.pc = "sleep", !.cur = 0],
          tickets |-> ts, closed |-> <<>>]
    ELSE IF s.items[p] = "none"
    THEN run_jobs(p + 1, s, ts, t)
    ELSE IF held_next_run(s, p) = NoTime
    THEN run_jobs(p + 1, set_next_run(s, p, s.tick_now + Interval(p)), ts, t)
    ELSE IF ~is_due(s.tick_now, held_next_run(s, p))
    THEN run_jobs(p + 1, s, ts, t)
    ELSE IF Jobs[p] = "auto_close_tickets" /\ SweepClosed(ts, t, 1) = <<>>
    THEN run_jobs(p + 1, job_completed(invoke(s, p), p), ts, t)
    ELSE IF Jobs[p] = "auto_close_tickets"
    THEN [sched |-> [invoke(s, p) EXCEPT !.pc = "job", !.cur = p],
          tickets |-> SweepTickets(ts, t), closed |-> SweepClosed(ts, t, 1)]
    ELSE [sched |-> [invoke(s, p) EXCEPT !.pc = "job", !.cur = p],
          tickets |-> ts, closed |-> <<>>]

\* the state at the next await of the loop task
Suspend(r) ==
    /\ sched' = r.sched
    /\ tickets' = r.tickets
    /\ closed_tickets' = r.closed
    /\ sweep_pc' = IF r.closed # <<>> THEN "notify" ELSE "idle"
    /\ sweep_now' = IF r.closed # <<>> THEN now ELSE 0
    /\ notify' = IF r.closed # <<>>
                 THEN [closed |-> {r.closed[k].id : k \in DOMAIN r.closed},
                       log |-> <<>>]
                 ELSE notify

\* the states of the loop task in which it waits at an await
Waiting == {"created", "job", "sleep"}

\* SchedulerService.start
SchedulerStart ==
    /\ shutdown = "no"
    /\ sched.stop_pc = "idle"
    /\ ~sched.running
    /\ sched' = [sched EXCEPT !.running = TRUE, !.pc = "created",
                              !.tasks = @ + 1, !.cur = 0]
    /\ UNCHANGED <<ticketVars, notify, hours, shutdown>>

\* _run_scheduler: one pass of the while loop from its top
LoopIteration ==
    /\ sched.pc \in {"created", "sleep"}
    /\ ~sched.cancel
    /\ IF ~sched.running
       THEN /\ sched' = [sched EXCEPT !.pc = "finished"]
            /\ UNCHANGED <<tickets, closed_tickets, sweep_pc, sweep_now, notify>>
       ELSE Suspend(run_jobs(1, [sched EXCEPT
                                   !.tick_now = hours,
                                   !.items = list_items(sched),
                                   !.held_next_run =
                                       [p \in DOMAIN Jobs |-> NoTime]],
                             tickets, now))
    /\ UNCHANGED <<now, state, reply_ticket_id, rate_btn, hours, shutdown>>

\* the sweeper, awaited by the loop, sends the notifications of one ticket
JobNotify(admin_fault, user_fault) ==
    /\ sched.pc = "job"
    /\ Jobs[sched.cur] = "auto_close_tickets"
    /\ ~sched.cancel
    /\ SweepNotifySends(admin_fault, user_fault)
    /\ UNCHANGED <<hours, sched, shutdown>>

\* the awaited job returns or raises, the for loop goes on to the next await
JobReturn(outcome) ==
    /\ sched.pc = "job"
    /\ ~sched.cancel
    /\ IF Jobs[sched.cur] = "auto_close_tickets"
       THEN sweep_pc = "return" /\ outcome = "ok"
       ELSE TRUE
    /\ Suspend(run_jobs(sched.cur + 1,
                        IF outcome = "ok" THEN job_completed(sched, sched.cur)
                        ELSE job_failed(sched, sched.cur),
                        tickets, now))
    /\ UNCHANGED <<now, state, reply_ticket_id, rate_btn, hours, shutdown>>

\* an hour passes
HourTick ==
    /\ hours < MaxHours
    /\ hours' = hours + 1
    /\ now' = (hours + 1) \div HoursPerDay
    /\ UNCHANGED <<tickets, state, reply_ticket_id, rate_btn, sweep_pc,
                   sweep_now, closed_tickets, notify, sched, shutdown>>

\* stop(), up to `await task`: running is cleared, the task is cancelled
stop_called(s) ==
    IF ~s.running THEN s
    ELSE [s EXCEPT !.running = FALSE, !.cancel = s.pc \in Waiting,
                   !.stop_pc = "awaiting"]

\* SchedulerService.stop is called
SchedulerStop ==
    /\ shutdown = "no"
    /\ sched.stop_pc = "idle"
    /\ sched.running
    /\ sched' = stop_called(sched)
    /\ UNCHANGED <<ticketVars, notify, hours, shutdown>>

\* the cancelled task resumes: CancelledError is raised at its await, passes
\* the `except Exception` handlers and ends the loop at line 125
TaskCancelled ==
    /\ sched.cancel
    /\ sched.pc \in Waiting
    /\ sched' = [sched EXCEPT !.pc = "finished", !.cancel = FALSE, !.cur = 0,
                              !.cancelled_at = sched.pc]
    /\ sweep_pc' = "idle"
    /\ sweep_now' = 0
    /\ closed_tickets' = <<>>
    /\ UNCHANGED <<tickets, now, state, reply_ticket_id, rate_btn, notify,
                   hours, shutdown>>

stop_may_return_NoAwait(s) == TRUE

\* `await task` in stop() returns when the task has finished
stop_may_return(s) == s.pc \in {"finished", "none"}

\* stop() after `await task`: self.tasks.clear()
StopReturn ==
    /\ sched.stop_pc = "awaiting"
    /\ stop_may_return(sched)
    /\ sched' = [sched EXCEPT !.tasks = 0, !.stop_pc = "idle"]
    /\ UNCHANGED <<ticketVars, notify, hours, shutdown>>

\* the state post_init leaves: the scheduler started, the jobs added, over a
\* store with earlier conversations, an hour before FirstSilentHour or at it
InitSched ==
    /\ tickets \in {BuildChats(ds) : ds \in BanDraftSeqs}
    /\ hours \in {FirstSilentHour - 1, FirstSilentHour}
    /\ now = hours \div HoursPerDay
    /\ state = [c \in Chats |-> "none"]
    /\ reply_ticket_id = NoId
    /\ rate_btn = {}
    /\ sweep_pc = "idle"
    /\ sweep_now = 0
    /\ closed_tickets = <<>>
    /\ disk = [primary |-> 1, bak |-> Absent, tmp |-> Absent]
    /\ mem = 1
    /\ save_pc = "idle"
    /\ payload = 1
    /\ prev = Absent
    /\ saved = 1
    /\ lookup = NoLookup
    /\ save_failed = {}
    /\ InitScreens
    /\ InitTrip
    /\ InitFeedback
    /\ banned = {}
    /\ notify = NoNotify
    /\ question_text = NoQuestionText
    /\ InitExt
    /\ sched = [NoSched EXCEPT
                  !.running = TRUE, !.tasks = 1, !.pc = "created",
                  !.jobs = DOMAIN Jobs,
                  !.added_at = [p \in DOMAIN Jobs |-> hours],
                  !.immediate = [p \in DOMAIN Jobs |-> RunImmediately(p)],
                  !.next_run = [p \in DOMAIN Jobs |->
                                  add_job(p, hours, RunImmediately(p))]]
    /\ shutdown = "no"

schedRest == <<storeVars, lookup, save_failed, screenVars, tripVars,
               feedbackVars, banned, question_text, extVars>>

NextSched ==
    \/ SchedulerStart /\ UNCHANGED schedRest
    \/ LoopIteration /\ UNCHANGED schedRest
    \/ \E admin_fault \in BOOLEAN, user_fault \in BOOLEAN :
         JobNotify(admin_fault, user_fault) /\ UNCHANGED schedRest
    \/ \E outcome \in {"ok", "raise"} : JobReturn(outcome) /\ UNCHANGED schedRest
    \/ HourTick /\ UNCHANGED schedRest
    \/ SchedulerStop /\ UNCHANGED schedRest
    \/ TaskCancelled /\ UNCHANGED schedRest
    \/ StopReturn /\ UNCHANGED schedRest

SpecSched == InitSched /\ [][NextSched]_vars

\* the job_info object of position p leaves self.jobs: a tick that holds it
\* in its list copy keeps iterating over it
unregister(s, p) ==
    IF s.items[p] = "live"
    THEN [s EXCEPT !.items[p] = "stale", !.held_next_run[p] = s.next_run[p]]
    ELSE s

\* SchedulerService.add_job, called by a handler or a job while the loop task
\* waits at an await: a new job_info object is stored under the job's ID, over
\* an earlier one if there is one
AddJob(p, run_immediately) ==
    /\ shutdown = "no"
    /\ sched.pc \in Waiting
    /\ ~sched.cancel
    /\ sched' = [unregister(sched, p) EXCEPT
                   !.jobs = @ \cup {p},
                   !.next_run[p] = add_job(p, hours, run_immediately),
                   !.last_run[p] = NoTime,
                   !.added_at[p] = hours,
                   !.immediate[p] = run_immediately]
    /\ UNCHANGED <<ticketVars, notify, hours, shutdown>>

\* del self.jobs[job_id]
remove_job(s, p) ==
    [unregister(s, p) EXCEPT !.jobs = @ \ {p},
                             !.next_run[p] = NoTime,
                             !.last_run[p] = NoTime,
                             !.added_at[p] = NoTime,
                             !.immediate[p] = FALSE]

\* SchedulerService.remove_job, called by a handler or a job while the loop
\* task waits at an await; an ID that is not registered is only logged
RemoveJob(p) ==
    /\ shutdown = "no"
    /\ sched.pc \in Waiting
    /\ ~sched.cancel
    /\ p \in sched.jobs
    /\ sched' = remove_job(sched, p)
    /\ UNCHANGED <<ticketVars, notify, hours, shutdown>>

\* the running loop with jobs added and removed while it runs
NextJobs ==
    \/ LoopIteration /\ UNCHANGED schedRest
    \/ \E admin_fault \in BOOLEAN, user_fault \in BOOLEAN :
         JobNotify(admin_fault, user_fault) /\ UNCHANGED schedRest
    \/ \E outcome \in {"ok", "raise"} : JobReturn(outcome) /\ UNCHANGED schedRest
    \/ HourTick /\ UNCHANGED schedRest
    \/ \E p \in DOMAIN Jobs, run_immediately \in BOOLEAN :
         AddJob(p, run_immediately) /\ UNCHANGED schedRest
    \/ \E p \in DOMAIN Jobs : RemoveJob(p) /\ UNCHANGED schedRest

\* the state post_init leaves at FirstSilentHour, over an empty store or one
\* ticket of day 0 that support replied to once
InitJobs ==
    /\ InitSched
    /\ hours = FirstSilentHour
    /\ \A k \in DOMAIN tickets :
          /\ tickets[k].status = "working"
          /\ tickets[k].created_at = 0
          /\ tickets[k].last_actor = "support"
          /\ Len(tickets[k].messages) = 2

SpecJobs == InitJobs /\ [][NextJobs]_vars

\* the loop task and the hours, with no message, take or close event and no
\* stop()
LoopStep == LoopIteration /\ UNCHANGED schedRest

NotifyStep ==
    \E admin_fault \in BOOLEAN, user_fault \in BOOLEAN :
        JobNotify(admin_fault, user_fault) /\ UNCHANGED schedRest

ReturnStep ==
    \E outcome \in {"ok", "raise"} : JobReturn(outcome) /\ UNCHANGED schedRest

HourStep == HourTick /\ UNCHANGED schedRest

NextAuto ==
    \/ LoopStep
    \/ NotifyStep
    \/ ReturnStep
    \/ HourStep

\* the event loop resumes the loop task when its sleep, a send or an
\* executor job completes, and time passes
FairAuto ==
    /\ WF_vars(LoopStep)
    /\ WF_vars(NotifyStep)
    /\ WF_vars(ReturnStep)
    /\ WF_vars(HourStep)

SpecAuto == InitSched /\ [][NextAuto]_vars /\ FairAuto

----------------------------------------------------------------------------
(* post_shutdown (config.py): the scheduler is stopped, then the store is  *)
(* saved. A save is one synchronous call; its file-system calls may fail.  *)

\* the failures of one call of _safe_write_json: none, while the temp file
\* is written, or at the final rename
SaveFaults == {"none", "write", "replace"}

\* the files after one call of _safe_write_json(payload)
safe_write_json(d, snapshot, fault) ==
    LET rotated == [primary |-> Absent,
                    bak |-> IF exists(d.primary) THEN d.primary ELSE d.bak,
                    tmp |-> Absent]
    IN  IF fault = "write" THEN [d EXCEPT !.tmp = Absent]
        ELSE IF fault = "replace" THEN rotated
        ELSE [rotated EXCEPT !.primary = snapshot]

\* DataManager.save() of the snapshot in memory
SaveNow(snapshot, fault) ==
    /\ save_pc = "idle"
    /\ payload' = snapshot
    /\ prev' = disk.primary
    /\ disk' = safe_write_json(disk, snapshot, fault)
    /\ saved' = IF fault = "none" THEN snapshot ELSE saved
    /\ save_pc' = "idle"

\* a handler changes the store and saves it
HandlerSave(fault) ==
    /\ shutdown = "no"
    /\ FreshSnapshot <= MaxSnapshot
    /\ mem' = FreshSnapshot
    /\ SaveNow(FreshSnapshot, fault)

\* update_ticket of the sweeper's scan: the store is saved when the step of
\* the loop task closed a ticket
SweeperSave(fault) ==
    IF tickets' # tickets
    THEN /\ FreshSnapshot <= MaxSnapshot
         /\ mem' = FreshSnapshot
         /\ SaveNow(FreshSnapshot, fault)
    ELSE /\ fault = "none"
         /\ UNCHANGED storeVars

\* post_shutdown: scheduler_service.stop() is called
PostShutdownStop ==
    /\ shutdown = "no"
    /\ sched.stop_pc = "idle"
    /\ shutdown' = "stopping"
    /\ sched' = stop_called(sched)
    /\ UNCHANGED <<ticketVars, notify, hours>>

stop_returned_NotAwaited(s) == TRUE

\* `await scheduler_service.stop()` has returned
stop_returned(s) == s.stop_pc = "idle"

\* post_shutdown: data_manager.save()
FinalSave(fault) ==
    /\ shutdown = "stopping"
    /\ stop_returned(sched)
    /\ shutdown' = IF fault = "none" THEN "saved" ELSE "save_failed"
    /\ mem' = mem
    /\ SaveNow(mem, fault)
    /\ UNCHANGED <<ticketVars, notify, hours, sched>>

shutdownRest == <<lookup, save_failed, screenVars, tripVars, feedbackVars,
                  banned, question_text, extVars>>

NextShutdown ==
    \/ \E fault \in SaveFaults :
         HandlerSave(fault)
         /\ UNCHANGED <<ticketVars, notify, schedVars, shutdownRest>>
    \/ \E fault \in SaveFaults :
         LoopIteration /\ SweeperSave(fault) /\ UNCHANGED shutdownRest
    \/ \E admin_fault \in BOOLEAN, user_fault \in BOOLEAN :
         JobNotify(admin_fault, user_fault)
         /\ UNCHANGED <<storeVars, shutdownRest>>
    \/ \E outcome \in {"ok", "raise"}, fault \in SaveFaults :
         JobReturn(outcome) /\ SweeperSave(fault) /\ UNCHANGED shutdownRest
    \/ HourTick /\ UNCHANGED <<storeVars, shutdownRest>>
    \/ PostShutdownStop /\ UNCHANGED <<storeVars, shutdownRest>>
    \/ TaskCancelled /\ UNCHANGED <<storeVars, shutdownRest>>
    \/ StopReturn /\ UNCHANGED <<storeVars, shutdownRest>>
    \/ \E fault \in SaveFaults : FinalSave(fault) /\ UNCHANGED shutdownRest

SpecShutdown == InitSched /\ [][NextShutdown]_vars

----------------------------------------------------------------------------
(* TicketService called with any ticket ID, with the call on record.       *)

\* the methods of TicketService that take a ticket ID
ServiceOps == {"add_message", "take_ticket", "close_ticket", "rate_ticket"}

\* an ID that no ticket of the store has
MissingId(ts, t) == generate_ticket_id(ts, t)

\* a method that saves the store although it did not find the ticket
service_call_SaveAlways(ts, op, tid, t, sender) ==
    LET i == get_ticket(ts, tid)
    IN  IF i = None
        THEN [tickets |-> ts, found |-> FALSE, result |-> None,
              saved |-> TRUE]
        ELSE [tickets |-> take_ticket(ts, t, i, ADMIN_ID),
              found |-> TRUE, result |-> i, saved |-> TRUE]

\* add_message, take_ticket, close_ticket, rate_ticket with ticket_id tid:
\* the tickets after the call, what it returned and whether update_ticket
\* saved
service_call(ts, op, tid, t, sender) ==
    LET i == get_ticket(ts, tid)
    IN  IF i = None
        THEN [tickets |-> ts, found |-> FALSE, result |-> None,
              saved |-> FALSE]
        ELSE [tickets |->
                  IF op = "add_message"
                  THEN add_message(ts, t, i, sender, ADMIN_ID)
                  ELSE IF op = "take_ticket"
                  THEN take_ticket(ts, t, i, ADMIN_ID)
                  ELSE IF op = "close_ticket" THEN close_ticket(ts, t, i)
                  ELSE rate_ticket(ts, i, SetMax(Ratings)),
              found |-> TRUE, result |-> i, saved |-> TRUE]

\* a TicketService method is called with an ID of the store or a missing one
ServiceCall(op, tid, sender) ==
    LET r == service_call(tickets, op, tid, now, sender)
    IN  /\ (r.found /\ op = "add_message")
           => Len(tickets[r.result].messages) < MaxMessages
        /\ tickets' = r.tickets
        /\ svc_call' = [op |-> op, id |-> tid, found |-> r.found,
                        result |-> r.result, saved |-> r.saved,
                        turn |-> 1 - svc_call.turn]
        /\ IF r.saved
           THEN /\ FreshSnapshot <= MaxSnapshot
                /\ mem' = FreshSnapshot
                /\ SaveNow(FreshSnapshot, "none")
           ELSE UNCHANGED storeVars

RECURSIVE clear_count_All(_, _)
clear_count_All(ts, i) ==
    IF i > Len(ts) THEN 0 ELSE 1 + clear_count_All(ts, i + 1)

RECURSIVE clear_count(_, _)
\* clear_active_tickets: count after the loop over get_active_tickets()
clear_count(ts, i) ==
    IF i > Len(ts) THEN 0
    ELSE (IF ts[i].status \in {"new", "working"} THEN 1 ELSE 0)
         + clear_count(ts, i + 1)

\* callback_handler, data == "clear_tickets": clear_active_tickets()
ClearCall ==
    LET count == clear_count(tickets, 1)
    IN  /\ tickets' = clear_active_tickets(tickets, now)
        /\ svc_call' = [op |-> "clear_active_tickets", id |-> NoId,
                        found |-> TRUE, result |-> count,
                        saved |-> count > 0, turn |-> 1 - svc_call.turn]
        /\ IF count > 0
           THEN /\ FreshSnapshot <= MaxSnapshot
                /\ mem' = FreshSnapshot
                /\ SaveNow(FreshSnapshot, "none")
           ELSE UNCHANGED storeVars

serviceRest == <<now, state, reply_ticket_id, rate_btn, sweep_pc, sweep_now,
                 closed_tickets, lookup, save_failed, screenVars, tripVars,
                 feedbackVars, banned, notify, schedVars, question_text,
                 thanks, ban_store>>

NextService ==
    \/ \E op \in ServiceOps, tid \in TicketIds \cup {MissingId(tickets, now)},
          sender \in {"user", "support"} :
         ServiceCall(op, tid, sender) /\ UNCHANGED serviceRest
    \/ ClearCall /\ UNCHANGED serviceRest

\* conversations opened on day 0 that support has not replied to
ServiceDraftSeqs ==
    {ds \in ChatDraftSeqs :
        \A k \in DOMAIN ds : ds[k].created_at = 0 /\ ds[k].replies = 0}

\* a store of new, working and done tickets, not saved yet
InitService ==
    /\ tickets \in {BuildChats(ds) : ds \in ServiceDraftSeqs}
    /\ now = MaxTime
    /\ state = [c \in Chats |-> "none"]
    /\ reply_ticket_id = NoId
    /\ rate_btn = {}
    /\ sweep_pc = "idle"
    /\ sweep_now = 0
    /\ closed_tickets = <<>>
    /\ InitStoreIdle
    /\ InitAux

SpecService == InitService /\ [][NextService]_vars

----------------------------------------------------------------------------
(* The thank button of a feedback card *)

\* thank-you messages the model lets a feedback's author receive
MaxThanks == 2

\* handle_suggestion_text / handle_review_text from create_feedback on: the
\* record is stored with thanked False and no message_id, the card with the
\* thank button is sent to the admin, and its message ID is recorded when the
\* send succeeded
FeedbackCard(f, card_sent) ==
    /\ ~thanks[f].exists
    /\ thanks' = [thanks EXCEPT ![f] =
                    [exists |-> TRUE, thanked |-> FALSE,
                     message_id |-> IF card_sent THEN f ELSE None,
                     button |-> IF card_sent THEN "thank" ELSE "",
                     sent |-> 0, flips |-> 0]]

\* FeedbackService.thank_feedback on a record that was found; flips counts
\* the changes of thanked from False to True
thank_feedback(r) ==
    [r EXCEPT !.thanked = TRUE, !.flips = IF r.thanked THEN @ ELSE @ + 1]

\* handle_thank_feedback, the admin presses the thank button of feedback f:
\* the record is marked, the thank-you message is sent to the author, and
\* the button is replaced when a message ID is recorded and the edit works
ThankPress(f, send_ok, edit_ok) ==
    /\ thanks[f].exists
    /\ thanks[f].button = "thank"
    /\ thanks[f].sent < MaxThanks
    /\ LET r == thank_feedback(thanks[f])
       IN  thanks' = [thanks EXCEPT ![f] =
                        IF ~send_ok THEN r
                        ELSE [r EXCEPT
                                !.sent = @ + 1,
                                !.button = IF r.message_id # None /\ edit_ok
                                           THEN "noop" ELSE @]]

thanksRest == <<ticketVars, storeVars, lookup, save_failed, screenVars,
                tripVars, feedbackVars, banned, notify, schedVars,
                question_text, svc_call, ban_store>>

NextThanks ==
    \/ \E f \in FeedbackIds, card_sent \in BOOLEAN :
         FeedbackCard(f, card_sent) /\ UNCHANGED thanksRest
    \/ \E f \in FeedbackIds, send_ok \in BOOLEAN, edit_ok \in BOOLEAN :
         ThankPress(f, send_ok, edit_ok) /\ UNCHANGED thanksRest

SpecThanks == Init /\ [][NextThanks]_vars

----------------------------------------------------------------------------
(* The ban file: a text is a sequence of characters, "nl" is the newline *)

\* the characters "0" to "9"
DigitChars == <<"0", "1", "2", "3", "4", "5", "6", "7", "8", "9">>

\* str(n) of an integer, as f"{uid}" formats it
str(n) ==
    LET ds == Digits(IF n < 0 THEN 0 - n ELSE n)
    IN  (IF n < 0 THEN <<"-">> ELSE <<>>)
        \o [k \in DOMAIN ds |-> DigitChars[ds[k] + 1]]

\* str.isdigit
isdigit(txt) ==
    /\ txt # <<>>
    /\ \A k \in DOMAIN txt : \E d \in DOMAIN DigitChars : txt[k] = DigitChars[d]

\* int(txt) of a text of digits
int(txt) ==
    ParseNum([k \in DOMAIN txt |->
                (CHOOSE d \in DOMAIN DigitChars : DigitChars[d] = txt[k]) - 1])

Whitespace == {" ", "nl"}

RECURSIVE strip(_)
\* str.strip
strip(txt) ==
    IF txt = <<>> THEN txt
    ELSE IF txt[1] \in Whitespace THEN strip(Tail(txt))
    ELSE IF txt[Len(txt)] \in Whitespace
    THEN strip(SubSeq(txt, 1, Len(txt) - 1))
    ELSE txt

\* the position of the first c in txt, 0 when there is none
find(txt, c) ==
    IF \E k \in DOMAIN txt : txt[k] = c
    THEN CHOOSE k \in DOMAIN txt :
            txt[k] = c /\ \A j \in 1..(k - 1) : txt[j] # c
    ELSE 0

RECURSIVE lines_of(_)
\* the lines a text file yields when iterated over
lines_of(content) ==
    IF content = <<>> THEN <<>>
    ELSE LET k == find(content, "nl")
         IN  IF k = 0 THEN <<content>>
             ELSE <<SubSeq(content, 1, k)>>
                  \o lines_of(SubSeq(content, k + 1, Len(content)))

\* banned[uid] = reason on a dict kept as the sequence of its items
dict_set(d, uid, reason) ==
    IF \E k \in DOMAIN d : d[k].uid = uid
    THEN [k \in DOMAIN d |->
            IF d[k].uid = uid THEN [uid |-> uid, reason |-> reason] ELSE d[k]]
    ELSE Append(d, [uid |-> uid, reason |-> reason])

\* del banned[uid]
dict_del(d, uid) == SelectSeq(d, LAMBDA e : e.uid # uid)

\* BAN_DEFAULT_REASON
BanDefaultReason == <<"r">>

\* the loop body of _load_banned for one line of the file
load_line(d, raw) ==
    LET line == strip(raw)
        k == find(line, "|")
        user_id_raw == strip(IF k = 0 THEN line ELSE SubSeq(line, 1, k - 1))
    IN  IF line = <<>> \/ line[1] = "#" THEN d
        ELSE IF ~isdigit(user_id_raw) THEN d
        ELSE dict_set(d, int(user_id_raw),
                      IF k = 0 THEN BanDefaultReason
                      ELSE strip(SubSeq(line, k + 1, Len(line))))

RECURSIVE load_lines(_, _)
load_lines(d, ls) ==
    IF ls = <<>> THEN d ELSE load_lines(load_line(d, Head(ls)), Tail(ls))

\* BanManager._load_banned over the content of BANNED_FILE
load_banned(content) == load_lines(<<>>, lines_of(content))

RECURSIVE save_banned(_)
\* BanManager._save_banned: f"{uid}|{reason}\n" for every item
save_banned(d) ==
    IF d = <<>> THEN <<>>
    ELSE str(Head(d).uid) \o <<"|">> \o Head(d).reason \o <<"nl">>
         \o save_banned(Tail(d))

\* user IDs the admin enters in the ban flow; 0 is turned away there
BanIds == {0 - 1, 1, 10}

\* reason texts: empty, plain, with "|", with a space, of two lines
BanReasons == {<<>>, <<"a">>, <<"a", "|", "b">>, <<"a", " ", "b">>,
               <<"a", "nl", "b">>}

\* entries the registry holds in the model
MaxBanned == 2

\* BanManager.ban_user, from the ban flow of the admin
ban_user(uid, reason) ==
    /\ ~ban_store.restarted
    /\ Len(ban_store.banned) < MaxBanned
    /\ \A k \in DOMAIN ban_store.banned : ban_store.banned[k].uid # uid
    /\ LET d == dict_set(ban_store.banned, uid, reason)
       IN  ban_store' = [ban_store EXCEPT !.banned = d, !.file = save_banned(d)]

\* BanManager.unban_user of a banned user
unban_user(uid) ==
    /\ ~ban_store.restarted
    /\ \E k \in DOMAIN ban_store.banned : ban_store.banned[k].uid = uid
    /\ LET d == dict_del(ban_store.banned, uid)
       IN  ban_store' = [ban_store EXCEPT !.banned = d, !.file = save_banned(d)]

\* the next start: BanManager.__init__ loads BANNED_FILE; banned keeps the
\* registry of the run before for comparison
BanRestart ==
    /\ ~ban_store.restarted
    /\ ban_store' = [ban_store EXCEPT !.reloaded = load_banned(ban_store.file),
                                      !.restarted = TRUE]

banFileRest == <<ticketVars, storeVars, lookup, save_failed, screenVars,
                 tripVars, feedbackVars, banned, notify, schedVars,
                 question_text, svc_call, thanks>>

NextBanFile ==
    \/ \E uid \in BanIds, reason \in BanReasons :
         ban_user(uid, reason) /\ UNCHANGED banFileRest
    \/ \E uid \in BanIds : unban_user(uid) /\ UNCHANGED banFileRest
    \/ BanRestart /\ UNCHANGED banFileRest

SpecBanFile == Init /\ [][NextBanFile]_vars

----------------------------------------------------------------------------
(* Properties *)

\* a step of the sweeper's scan loop
SweepStep == sweep_pc = "idle" /\ sweep_pc' # "idle"

\* the inactivity of a ticket at time t
Inactivity(tk, t) == t - tk.last_activity_at

\* C1 (as the code decides it): in one run of the sweeper a ticket is set to
\* done exactly when its status is new or working, its last_actor is support
\* and now - last_activity_at is strictly greater than the window; every
\* other ticket is left untouched.
C1_SweepClosesStrictlyOlder ==
    [][SweepStep =>
        /\ DOMAIN tickets' = DOMAIN tickets
        /\ \A i \in DOMAIN tickets :
            LET due == /\ IsOpen(tickets[i])
                       /\ tickets[i].last_actor = "support"
                       /\ Inactivity(tickets[i], now) > AutoCloseWindow
            IN  /\ due => tickets'[i].status = "done"
                /\ ~due => tickets'[i] = tickets[i]]_vars

\* C1 as stated: the same with now - last_activity_at >= the window.
C1_SweepClosesAtWindow ==
    [][SweepStep =>
        /\ DOMAIN tickets' = DOMAIN tickets
        /\ \A i \in DOMAIN tickets :
            LET due == /\ IsOpen(tickets[i])
                       /\ tickets[i].last_actor = "support"
                       /\ Inactivity(tickets[i], now) >= AutoCloseWindow
            IN  /\ due => tickets'[i].status = "done"
                /\ ~due => tickets'[i] = tickets[i]]_vars

\* the sweeper has just closed a ticket that was inactive for more than the
\* window, and left another ticket as it was
C1_Witness ==
    /\ sweep_pc = "notify"
    /\ closed_tickets # <<>>
    /\ LET c == closed_tickets[1]
           i == get_ticket(tickets, c.id)
       IN  /\ i # None
           /\ tickets[i].status = "done"
           /\ tickets[i].last_activity_at = sweep_now
           /\ c.hours_inactive > AutoCloseWindow
    /\ \E j \in DOMAIN tickets : tickets[j].last_activity_at < sweep_now

\* C2: whenever the sweeper changes a ticket's status to done, the ticket's
\* last_actor is support before and after the change, whatever the handlers
\* did before the scan.
C2_SweepNeverClosesUserTurn ==
    [][SweepStep =>
        \A i \in DOMAIN tickets :
            (tickets[i].status # "done" /\ tickets'[i].status = "done")
            => /\ tickets[i].last_actor = "support"
               /\ tickets'[i].last_actor = "support"]_vars

\* a sweep is under way or has returned its scan, and an open ticket the
\* support had answered, whose last word is the user's and which was inactive
\* for more than the window at the scan, is still open
C2_Witness ==
    /\ sweep_pc # "idle"
    /\ \E i \in DOMAIN tickets :
        /\ IsOpen(tickets[i])
        /\ tickets[i].last_actor = "user"
        /\ \E k \in DOMAIN tickets[i].messages :
               tickets[i].messages[k].sender = "support"
        /\ tickets[i].last_activity_at < sweep_now - AutoCloseWindow

\* C3 as stated: a ticket with status done keeps status done in every step.
C3_DoneIsTerminal ==
    [][\A i \in DOMAIN tickets :
        tickets[i].status = "done" => tickets'[i].status = "done"]_vars

\* C4 as stated: in every step that starts and ends with a ticket in status
\* done, its messages, last_actor, last_activity_at, assigned and
\* first_response_at do not change.
C4_DoneIsFrozen ==
    [][\A i \in DOMAIN tickets :
        (tickets[i].status = "done" /\ tickets'[i].status = "done")
        => /\ tickets'[i].messages = tickets[i].messages
           /\ tickets'[i].last_actor = tickets[i].last_actor
           /\ tickets'[i].last_activity_at = tickets[i].last_activity_at
           /\ tickets'[i].assigned = tickets[i].assigned
           /\ tickets'[i].first_response_at = tickets[i].first_response_at]_vars

\* C5 as stated: every user owns at most one ticket whose status is new or
\* working.
C5_AtMostOneOpenTicket ==
    \A u \in Users :
        Cardinality({i \in DOMAIN tickets :
                        tickets[i].user_id = u /\ IsOpen(tickets[i])}) <= 1

\* C6: the status of every ticket is new, working or done, and the last_actor
\* of every ticket with at least one message is user or support.
C6_StatusAndActorDomains ==
    \A i \in DOMAIN tickets :
        /\ tickets[i].status \in {"new", "working", "done"}
        /\ Len(tickets[i].messages) >= 1
           => tickets[i].last_actor \in {"user", "support"}

\* tickets in two different statuses, one of them closed after a support reply
C6_Witness ==
    \E i, j \in DOMAIN tickets :
        /\ tickets[i].status = "done"
        /\ tickets[i].last_actor = "support"
        /\ tickets[j].status = "working"
        /\ tickets[j].last_actor = "user"

\* C7: after every step the last_actor of every ticket is the sender of its
\* last message; a step that appends no message to a ticket (take, close,
\* rate, bulk close, sweeper) changes neither its messages nor its last_actor,
\* and a step that appends appends exactly one message.
C7_LastActorIsLastSender ==
    [][\A i \in DOMAIN tickets' :
        /\ Len(tickets'[i].messages) >= 1
        /\ tickets'[i].last_actor =
               tickets'[i].messages[Len(tickets'[i].messages)].sender
        /\ i \in DOMAIN tickets
           => /\ tickets'[i].last_actor # tickets[i].last_actor
                 => Len(tickets'[i].messages) = Len(tickets[i].messages) + 1
              /\ Len(tickets'[i].messages) = Len(tickets[i].messages)
                 => tickets'[i].messages = tickets[i].messages
              /\ Len(tickets'[i].messages) # Len(tickets[i].messages)
                 => SubSeq(tickets'[i].messages, 1, Len(tickets[i].messages))
                        = tickets[i].messages
                    /\ Len(tickets'[i].messages) = Len(tickets[i].messages) + 1]_vars

\* a ticket with user, support and user messages that was taken, closed and
\* rated: its last_actor is still the user
C7_Witness ==
    \E i \in DOMAIN tickets :
        /\ Len(tickets[i].messages) = 3
        /\ tickets[i].messages[2].sender = "support"
        /\ tickets[i].last_actor = "user"
        /\ tickets[i].status = "done"
        /\ tickets[i].rated

\* the tickets created on the calendar day of time t
CreatedOn(ts, t) == {j \in DOMAIN ts : DatePart(ts[j].created_at) = DatePart(t)}

\* handle_question_text has created a ticket for some user
CreationStep ==
    \E u \in Users : state[u] = "awaiting_question" /\ state'[u] = "none"

\* C8: every creation adds one ticket whose ID carries the current day and a
\* four-digit sequence number one above the number of tickets created that
\* day before (1 for the first of a day), differs from every existing ID, and
\* no step changes the ID of an existing ticket.
C8_TicketIdsSequential ==
    [][/\ \A j \in DOMAIN tickets :
            j \in DOMAIN tickets' /\ tickets'[j].id = tickets[j].id
       /\ CreationStep =>
            LET n == Len(tickets')
            IN  /\ n = Len(tickets) + 1
                /\ tickets'[n].id.date = DatePart(now)
                /\ Len(tickets'[n].id.seq) = 4
                /\ ParseNum(tickets'[n].id.seq)
                       = Cardinality(CreatedOn(tickets, now)) + 1
                /\ \A j \in DOMAIN tickets : tickets[j].id # tickets'[n].id]_vars

\* a ticket with sequence number 1 created on a day after a day that also
\* had a ticket number 1
C8_Witness ==
    /\ Len(tickets) = 2
    /\ tickets[1].id.date < tickets[2].id.date
    /\ tickets[1].id.seq = <<0, 0, 0, 1>>
    /\ tickets[2].id.seq = <<0, 0, 0, 1>>

\* the open tickets of a user
OpenTicketsOf(u) ==
    {i \in DOMAIN tickets : tickets[i].user_id = u /\ IsOpen(tickets[i])}

\* C9: get_user_active_ticket(user_id) returns None exactly when the user has
\* no ticket with status new or working; otherwise it returns a ticket of
\* that user, with status new or working, whose created_at is maximal among
\* the user's open tickets.
C9_ActiveTicketIsNewestOpen ==
    lookup # NoLookup =>
        LET u == lookup.user
            r == lookup.result
        IN  /\ r = None <=> OpenTicketsOf(u) = {}
            /\ r # None =>
                /\ r \in OpenTicketsOf(u)
                /\ \A j \in OpenTicketsOf(u) :
                       tickets[j].created_at <= tickets[r].created_at

\* the lookup chose between two open tickets of the user created at different
\* times, while the newest ticket of the store belongs to someone else
C9_Witness ==
    /\ lookup # NoLookup
    /\ lookup.result # None
    /\ \E i, j \in OpenTicketsOf(lookup.user) :
           tickets[i].created_at < tickets[j].created_at
    /\ \E k \in DOMAIN tickets :
        /\ tickets[k].user_id # lookup.user
        /\ IsOpen(tickets[k])
        /\ tickets[k].created_at > tickets[lookup.result].created_at

\* C10: when the primary file held a complete snapshot before a save and the
\* process crashed inside that save, the load of the next process yields that
\* snapshot or the one being saved, never the empty store.
C10_CrashLeavesOldOrNew ==
    (save_pc = "recovered" /\ prev >= 1) => mem \in {prev, payload}

\* the crash came after the primary was renamed to .bak and before the temp
\* file was renamed: the next process recovered the previous snapshot
C10_Witness ==
    /\ save_pc = "recovered"
    /\ prev >= 1
    /\ disk.primary = Absent
    /\ disk.tmp = payload
    /\ mem = prev

\* _load_from_path and the conversion of the document both succeed
Loadable(file) == file >= 1

\* C11 as stated: load() yields the primary's content when the primary can be
\* loaded, else the .bak's content when that can be loaded, and the empty
\* store only when neither can be loaded.
C11_LoadFallsBackToBak ==
    save_pc = "recovered" =>
        mem = IF Loadable(disk.primary) THEN disk.primary
              ELSE IF Loadable(disk.bak) THEN disk.bak
              ELSE EmptyStore

C13_PrimaryMirrorsMemory ==
    (save_pc = "idle" /\ mem # EmptyStore) =>
        /\ disk.primary = mem
        /\ load(disk) = mem

\* two mutating operations have completed: the primary holds the second
\* snapshot, the .bak the first
C13_Witness ==
    /\ save_pc = "idle"
    /\ mem = 2
    /\ disk.primary = 2
    /\ disk.bak = 1
    /\ disk.tmp = Absent

\* C14: a failing write never leaves save() as an exception; when a failed
\* save() returns, the snapshot in memory is the one the operation produced
\* and load() still yields the last snapshot a save() completed; when a
\* later save() completes, the primary holds the snapshot in memory.
C14_FailedSaveKeepsEffect ==
    [][/\ save_pc' # "raised"
       /\ (save_pc = "cleanup" /\ save_pc' = "idle") =>
            /\ mem' = mem
            /\ mem' = payload'
            /\ load(disk') = saved'
       /\ (save_pc = "saved" /\ save_pc' = "idle") =>
            /\ disk'.primary = mem'
            /\ load(disk') = mem']_vars

\* a save() failed at the final rename after the primary had been rotated to
\* .bak, and the following save() completed
C14_Witness ==
    /\ save_pc = "idle"
    /\ mem = 3
    /\ saved = 3
    /\ disk.primary = 3
    /\ disk.bak = 1

\* C15 as stated: a ticket whose closure could not be persisted during a
\* sweep keeps its previous state in memory and is not in closed_tickets,
\* while the other candidates of the sweep are closed.
C15_UnsavedClosureAborted ==
    [][SweepStep =>
        \A i \in DOMAIN tickets :
            /\ tickets[i].id \in save_failed' =>
                /\ tickets'[i] = tickets[i]
                /\ \A k \in DOMAIN closed_tickets' :
                       closed_tickets'[k].id # tickets[i].id
            /\ (AutoCloseEligible(tickets[i], now)
                /\ tickets[i].id \notin save_failed')
               => tickets'[i].status = "done"]_vars

\* C16 as stated: a read operation of the store (every operation that
\* SpecRead starts between saves) leaves the in-memory state unchanged and
\* starts no write.
C16_ReadsDoNotWrite ==
    [][save_pc = "idle" =>
        /\ mem' = mem
        /\ tickets' = tickets
        /\ data_rest' = data_rest
        /\ save_pc' = "idle"
        /\ disk' = disk]_vars

\* C17 as stated: when show_admin_screen is called with the content that the
\* message recorded for the screen type already shows, and the transport
\* does not fail, the call edits the recorded message, sends nothing, and
\* leaves exactly one message showing the screen type, whether the call comes
\* from a plain message or from a button on another message.
C17_SecondRenderEditsRecorded ==
    (render.op = "show" /\ render.same /\ render.outcome # "error")
        => /\ render.edited = render.prior
           /\ render.send = ""
           /\ render.live = 1

\* C18: when the edit reports that the content is unchanged, nothing is
\* sent, the registry holds the ID of the message the edit was tried on, and
\* that ID is returned.
C18_NotModifiedIsSuccess ==
    (render.op = "show" /\ render.outcome = "not_modified")
        => /\ render.send = ""
           /\ render.added = 0
           /\ screens[render.screen] = render.edited
           /\ render.result = render.edited

\* an unchanged edit on the message of a pressed button that the registry
\* did not hold for the screen type
C18_Witness ==
    /\ render.op = "show"
    /\ render.outcome = "not_modified"
    /\ render.via # None
    /\ render.prior # render.edited

\* C19: when show_admin_screen has no message ID to edit (none from the
\* pressed button and none in the registry), or the edit fails with anything
\* but "not modified", it tries one send; a successful send adds exactly one
\* message, whose ID the registry then holds and the call returns; a failed
\* send adds none, returns None and leaves the registry entry as it was.
C19_FallbackSendsOne ==
    (render.op = "show" /\ (render.edited = None \/ render.outcome = "error"))
        => /\ render.send \in {"ok", "failed"}
           /\ render.send = "ok" =>
                 /\ render.added = 1
                 /\ render.sent # None
                 /\ screens[render.screen] = render.sent
                 /\ render.result = render.sent
           /\ render.send = "failed" =>
                 /\ render.added = 0
                 /\ render.result = None
                 /\ screens[render.screen] = render.prior

\* the edit of a recorded message failed and the send failed too
C19_Witness ==
    /\ render.op = "show"
    /\ render.outcome = "error"
    /\ render.send = "failed"
    /\ render.prior \in 1..MaxScreenMessages
    /\ screens[render.screen] = render.prior

\* C20: after the reset of a screen type the registry holds no message ID
\* for it, after the reset of all it holds none for any screen type, also for
\* a type that only show_admin_screen added; a call of show_admin_screen from
\* a plain message for a type without a message ID edits nothing and goes to
\* the send.
C20_ResetClearsEntries ==
    /\ render.op = "reset" => registry_get(screens, render.screen) = None
    /\ render.op = "reset_all" =>
          \A t \in ScreenTypes : registry_get(screens, t) = None
    /\ (render.op = "show" /\ render.via = None
            /\ render.prior \in {None, NoKey})
          => (render.edited = None /\ render.send \in {"ok", "failed"})

\* the help screen, added by show_admin_screen and then reset, is sent anew
C20_Witness ==
    /\ render.op = "show"
    /\ render.screen = "help"
    /\ render.via = None
    /\ render.prior = None
    /\ render.send = "ok"
    /\ Cardinality(Showing(chat, "help")) = 2

\* the smallest whole number of hours that covers d ticks
CeilHours(d) == (d + HourTicks - 1) \div HourTicks

\* C21 as stated: a check made less than FEEDBACK_COOLDOWN_HOURS after the
\* recorded submission reports blocked with the remaining time rounded up to
\* whole hours, at least 1; a check made at or after that reports allowed.
C21_CooldownRemainingRoundsUp ==
    cooldown_check.elapsed # NoTime =>
        IF cooldown_check.elapsed < need
        THEN /\ ~cooldown_check.can_send
             /\ cooldown_check.hours = CeilHours(need - cooldown_check.elapsed)
             /\ cooldown_check.hours >= 1
        ELSE cooldown_check.can_send

\* C22: a handled feedback text is accepted without the cooldown check when
\* the user's skip_cooldown flag is set, and is decided by check_cooldown
\* when it is not; every accepted text leaves the flag false, so the text
\* after a bypassed one is checked.
C22_SkipCooldownOnce ==
    [][feedback_text'.turn # feedback_text.turn =>
         LET u == feedback_text'.user
             k == feedback_text'.type
         IN  /\ skip_cooldown[u] =>
                   feedback_text'.accepted /\ feedback_text'.skipped
             /\ ~skip_cooldown[u] =>
                   /\ ~feedback_text'.skipped
                   /\ feedback_text'.accepted
                        = check_cooldown(feedback_cooldowns, u, k, clock).can_send
             /\ feedback_text'.accepted => ~skip_cooldown'[u]]_vars

\* a text was accepted through the flag while the cooldown would block it,
\* and the flag is false again
C22_Witness ==
    /\ feedback_text.accepted
    /\ feedback_text.skipped
    /\ ~skip_cooldown[feedback_text.user]
    /\ ~check_cooldown(feedback_cooldowns, feedback_text.user,
                       feedback_text.type, clock).can_send

\* C23 as stated: a step taken while a user is banned, other than the
\* admin's ban and unban, leaves the tickets, the feedback cooldowns, the
\* user records, the skip flag and the user's conversation state unchanged.
C23_BannedUserChangesNothing ==
    [][\A u \in Users :
         (is_banned(banned, u) /\ is_banned(banned', u)) =>
            /\ tickets' = tickets
            /\ state'[u] = state[u]
            /\ feedback_cooldowns' = feedback_cooldowns
            /\ skip_cooldown' = skip_cooldown
            /\ data_rest' = data_rest]_vars

\* the sends to one side that the running sweep tried for ticket id
Attempts(id, to) ==
    {k \in DOMAIN notify.log : notify.log[k].id = id /\ notify.log[k].to = to}

\* C24: when the sweep has gone through its notifications, it has tried
\* exactly one send to the admin and exactly one to the owner for every
\* ticket it closed, whichever of the sends failed.
C24_EveryNotificationAttempted ==
    sweep_pc = "return" =>
        \A id \in notify.closed :
            /\ Cardinality(Attempts(id, "admin")) = 1
            /\ Cardinality(Attempts(id, "user")) = 1

\* a sweep closed two tickets, the first send failed, all four were tried
C24_Witness ==
    /\ sweep_pc = "return"
    /\ Cardinality(notify.closed) = 2
    /\ Len(notify.log) = 4
    /\ ~notify.log[1].ok
    /\ ~notify.log[4].ok

\* C26: once stop() has returned and until start() is called again, the loop
\* task has finished, the task list is empty, no job is in progress and the
\* sweeper is not between its awaits; a step taken in that state invokes no
\* job. This holds too when stop() was called while a job was suspended.
C26_StoppedMeansNoJob ==
    /\ [](~sched.running /\ sched.stop_pc = "idle"
            => /\ sched.pc \in {"none", "finished"}
               /\ ~sched.cancel
               /\ sched.tasks = 0
               /\ sched.cur = 0
               /\ sweep_pc = "idle")
    /\ [][~sched.running /\ sched.stop_pc = "idle" /\ ~sched'.running
            => /\ sched'.pc \in {"none", "finished"}
               /\ sched'.last_run = sched.last_run
               /\ sched'.last_failure = sched.last_failure
               /\ tickets' = tickets
               /\ notify' = notify]_vars

\* stop() has returned after it was called while the sweeper was suspended
\* between the notifications of the tickets it closed
C26_Witness ==
    /\ ~sched.running
    /\ sched.stop_pc = "idle"
    /\ sched.cancelled_at = "job"
    /\ notify.closed # {}
    /\ Len(notify.log) < 2 * Cardinality(notify.closed)

\* C28: a step in which a job raises leaves the loop running, reschedules
\* the job to the tick's time plus its interval, and runs every later job of
\* the list that is due in the same tick.
C28_FailingJobIsRescheduled ==
    [][\A p \in DOMAIN Jobs :
         sched'.last_failure[p] # sched.last_failure[p]
         => /\ sched'.running
            /\ sched'.pc \in {"job", "sleep"}
            /\ sched'.next_run[p] = sched.tick_now + Interval(p)
            /\ \A q \in (p + 1)..Len(Jobs) :
                 is_due(sched.tick_now, sched.next_run[q])
                 => \/ sched'.last_run[q] = sched.tick_now
                    \/ sched'.pc = "job" /\ sched'.cur = q]_vars

\* the job that failed in an earlier tick is invoked again, and the other job
\* ran in the tick of the failure
C28_Witness ==
    /\ sched.pc = "job"
    /\ sched.cur = 1
    /\ sched.last_failure[1] # NoTime
    /\ sched.tick_now > sched.last_failure[1]
    /\ sched.last_run[2] = sched.last_failure[1]

ClosedAndNotified(i) ==
    /\ i \in DOMAIN tickets
    /\ tickets[i].status = "done"
    /\ Attempts(tickets[i].id, "admin") # {}
    /\ Attempts(tickets[i].id, "user") # {}

\* C25: with the scheduler running and no further event, a ticket that is
\* open with last_actor = support is eventually done, with a notification
\* attempted to the admin and to the owning user.
C25_SilentTicketIsAutoClosed ==
    \A i \in 1..MaxChatTickets :
        (i \in DOMAIN tickets /\ IsOpen(tickets[i])
           /\ tickets[i].last_actor = "support")
        ~> ClosedAndNotified(i)

\* a ticket whose last activity was on day MaxTime has been closed by the
\* sweep of the first day on which it was silent for long enough, and the
\* loop is back at its sleep
C25_Witness ==
    /\ sched.pc = "sleep"
    /\ \E i \in DOMAIN tickets :
         /\ ClosedAndNotified(i)
         /\ tickets[i].id \in notify.closed
         /\ tickets[i].last_activity_at = FirstSilentHour \div HoursPerDay
         /\ sched.last_run[2] >= FirstSilentHour

\* the last message of the ticket
LastMessage(tk) == tk.messages[Len(tk.messages)]

\* C29: a step appends a message of the user to a ticket only when the
\* ticket's last_actor was support; a ticket whose last_actor is user keeps
\* its messages or gets a message of support; no ticket holds two
\* consecutive messages of the user.
C29_TurnTaking ==
    /\ [](\A i \in DOMAIN tickets :
            \A k \in 1..(Len(tickets[i].messages) - 1) :
                ~(/\ tickets[i].messages[k].sender = "user"
                  /\ tickets[i].messages[k + 1].sender = "user"))
    /\ [][\A i \in DOMAIN tickets :
            /\ i \in DOMAIN tickets'
            /\ tickets[i].last_actor = "user"
               => \/ tickets'[i].messages = tickets[i].messages
                  \/ LastMessage(tickets'[i]).sender = "support"
            /\ (/\ Len(tickets'[i].messages) > Len(tickets[i].messages)
                /\ LastMessage(tickets'[i]).sender = "user")
               => tickets[i].last_actor = "support"]_vars

\* an open ticket on which the user, support and the user again wrote in
\* turn, the user now waiting for the reply
C29_Witness ==
    \E i \in DOMAIN tickets :
        /\ IsOpen(tickets[i])
        /\ Len(tickets[i].messages) = 3
        /\ tickets[i].messages[1].sender = "user"
        /\ tickets[i].messages[2].sender = "support"
        /\ tickets[i].messages[3].sender = "user"

\* C30: a text handled in state awaiting_question that is shorter than
\* ASK_MIN_LENGTH changes no ticket and leaves the state; a longer one
\* appends exactly one ticket of the sender with status new, one message of
\* the user and last_actor = user, and resets the state to none; no other
\* step adds a ticket.
C30_TicketOnlyFromQualifyingText ==
    [][LET q == question_text'
           asked == q.turn # question_text.turn
                    /\ q.state = "awaiting_question"
           n == Len(tickets)
       IN  /\ (asked /\ q.len < ASK_MIN_LENGTH)
              => /\ tickets' = tickets
                 /\ state'[q.user] = "awaiting_question"
           /\ (asked /\ q.len >= ASK_MIN_LENGTH)
              => /\ Len(tickets') = n + 1
                 /\ SubSeq(tickets', 1, n) = tickets
                 /\ tickets'[n + 1].user_id = q.user
                 /\ tickets'[n + 1].status = "new"
                 /\ Len(tickets'[n + 1].messages) = 1
                 /\ tickets'[n + 1].messages[1].sender = "user"
                 /\ tickets'[n + 1].last_actor = "user"
                 /\ state'[q.user] = "none"
           /\ Len(tickets') # n
              => asked /\ q.len >= ASK_MIN_LENGTH]_vars

\* a second ticket was opened by a qualifying text, after a text that was
\* too short had been refused
C30_Witness ==
    /\ question_text.state = "awaiting_question"
    /\ question_text.len >= ASK_MIN_LENGTH
    /\ question_text.tickets = 1
    /\ Len(tickets) = 2
    /\ tickets[2].status = "new"
    /\ state[question_text.user] = "none"

\* the ticket holds a message of support
HasSupportMessage(tk) ==
    \E k \in DOMAIN tk.messages : tk.messages[k].sender = "support"

\* C31: first_response_at is unset exactly while the ticket holds no message
\* of support; the step that sets it appends a message of support, stamps
\* the time of the call and assigns the admin; once set it never changes.
C31_FirstResponseStampedOnce ==
    /\ [](\A i \in DOMAIN tickets :
            (tickets[i].first_response_at = NoTime)
                <=> ~HasSupportMessage(tickets[i]))
    /\ [][\A i \in DOMAIN tickets :
            /\ i \in DOMAIN tickets'
            /\ tickets[i].first_response_at # NoTime
               => tickets'[i].first_response_at = tickets[i].first_response_at
            /\ (/\ tickets[i].first_response_at = NoTime
                /\ tickets'[i].first_response_at # NoTime)
               => /\ Len(tickets'[i].messages) = Len(tickets[i].messages) + 1
                  /\ LastMessage(tickets'[i]).sender = "support"
                  /\ tickets'[i].first_response_at = now
                  /\ tickets'[i].assigned = ADMIN_ID]_vars

\* a rated, closed ticket with two replies of support, the second one later
\* than the first response
C31_Witness ==
    \E i \in DOMAIN tickets :
        /\ Len(tickets[i].messages) = 3
        /\ tickets[i].messages[2].sender = "support"
        /\ tickets[i].messages[3].sender = "support"
        /\ tickets[i].first_response_at # NoTime
        /\ tickets[i].first_response_at < tickets[i].last_activity_at
        /\ tickets[i].status = "done"
        /\ tickets[i].rated

\* C32: a call of clear_active_tickets returns the number of tickets that
\* were new or working before it, leaves no ticket open, sets each of those
\* to done and leaves every ticket that was done as it was.
C32_BulkCloseCountsAndCloses ==
    [][(svc_call'.turn # svc_call.turn /\ svc_call'.op = "clear_active_tickets")
         => /\ svc_call'.result = Cardinality(get_active_tickets(tickets))
            /\ get_active_tickets(tickets') = {}
            /\ DOMAIN tickets' = DOMAIN tickets
            /\ \A i \in DOMAIN tickets :
                 IF IsOpen(tickets[i])
                 THEN tickets'[i].status = "done"
                 ELSE tickets'[i] = tickets[i]]_vars

\* a bulk close has closed one of two tickets, the other was done before
C32_Witness ==
    /\ svc_call.op = "clear_active_tickets"
    /\ svc_call.result = 1
    /\ Len(tickets) = 2
    /\ get_active_tickets(tickets) = {}

\* C33: a call of add_message, take_ticket, close_ticket or rate_ticket with
\* an ID that no ticket has returns None, changes no ticket, leaves the
\* store in memory as it was and writes no file.
C33_MissingTicketIsNoOp ==
    [][(/\ svc_call'.turn # svc_call.turn
        /\ svc_call'.op \in ServiceOps
        /\ get_ticket(tickets, svc_call'.id) = None)
         => /\ svc_call'.result = None
            /\ ~svc_call'.saved
            /\ tickets' = tickets
            /\ storeVars' = storeVars]_vars

\* rate_ticket was called with an ID that is not in a store of two tickets
C33_Witness ==
    /\ svc_call.op = "rate_ticket"
    /\ ~svc_call.found
    /\ svc_call.result = None
    /\ Len(tickets) = 2
    /\ get_ticket(tickets, svc_call.id) = None

\* C34 as stated: no two different screen types of the registry hold the
\* same message ID.
C34_ScreensHoldDistinctMessages ==
    \A t1 \in ScreenTypes, t2 \in ScreenTypes :
        (t1 # t2 /\ screens[t1] # None /\ screens[t1] # NoKey)
            => screens[t1] # screens[t2]

\* the step enters the function of the job at position p
JobInvoked(p) == sched'.calls[p] # sched.calls[p]

\* C40: a step never invokes the function of a job whose ID is not in
\* self.jobs, removed by remove_job and not added again
C40_RemovedJobNeverInvoked ==
    [][\A p \in DOMAIN Jobs : JobInvoked(p) => p \in sched.jobs]_vars

\* remove_job has taken a job out while the loop was inside another job of
\* the same tick
C40_RemovedDuringTick ==
    \E p \in DOMAIN Jobs :
        /\ sched.pc = "job"
        /\ p > sched.cur
        /\ p \notin sched.jobs
        /\ sched.items[p] = "stale"

\* C35, run_immediately=True: when a tick has ended, every job of its list
\* that was added with run_immediately=True has been invoked since it was
\* added
C35_ImmediateJobRunsOnFirstTick ==
    \A p \in DOMAIN Jobs :
        sched.pc = "sleep" /\ sched.items[p] = "live" /\ sched.immediate[p]
            => sched.started[p] # NoTime /\ sched.started[p] >= sched.added_at[p]

\* C35, run_immediately=False: a registered job added that way is invoked
\* only by a tick whose time is at least its add_job time plus its interval
C35_DelayedJobWaitsInterval ==
    \A p \in DOMAIN Jobs :
        JobInvoked(p) /\ p \in sched.jobs /\ ~sched.immediate[p]
            => sched'.started[p] >= sched.added_at[p] + Interval(p)

\* C35, spacing: a job invoked before and not added again since is invoked
\* next only by a tick at least its interval after the invoking tick, hence
\* at most once per tick
C35_NextRunAfterInterval ==
    \A p \in DOMAIN Jobs :
        /\ JobInvoked(p)
        /\ p \in sched.jobs
        /\ sched.started[p] # NoTime
        /\ sched.added_at[p] < sched.started[p]
        => sched'.started[p] >= sched.started[p] + Interval(p)

\* C35: the first and the following invocations of a job respect
\* run_immediately and the interval, also for jobs added after start()
C35_JobTiming ==
    /\ [](C35_ImmediateJobRunsOnFirstTick)
    /\ [][C35_DelayedJobWaitsInterval /\ C35_NextRunAfterInterval]_vars

\* a job is added with run_immediately=False over a registration that the
\* running tick still holds in its list
C35_AddedOverHeldJob ==
    \E p \in DOMAIN Jobs :
        /\ sched.pc = "job"
        /\ p > sched.cur
        /\ p \in sched.jobs
        /\ ~sched.immediate[p]
        /\ sched.items[p] = "stale"
        /\ sched.added_at[p] = sched.tick_now

\* the step appends a message of support to a ticket
SupportReplied ==
    \E i \in DOMAIN tickets :
        /\ Len(tickets'[i].messages) = Len(tickets[i].messages) + 1
        /\ LastMessage(tickets'[i]).sender = "support"

\* C36: while the admin's state is awaiting_reply, reply_ticket_id is the ID
\* of a ticket of the store
C36_WaitingHasTicket ==
    state[ADMIN_ID] = "awaiting_reply"
        => reply_ticket_id # NoId /\ get_ticket(tickets, reply_ticket_id) # None

\* C36: a reply that reached a ticket resets state and reply_ticket_id, and
\* no step clears reply_ticket_id and leaves the state awaiting_reply
C36_ReplyResetsBoth ==
    /\ SupportReplied
            => state'[ADMIN_ID] = "none" /\ reply_ticket_id' = NoId
    /\ reply_ticket_id # NoId /\ reply_ticket_id' = NoId
            => state'[ADMIN_ID] # "awaiting_reply"

\* C36: awaiting_reply always comes with the ID of an existing ticket, and
\* the two are reset together by a successful reply only
C36_ReplyTargetIsSet ==
    /\ [](C36_WaitingHasTicket)
    /\ [][C36_ReplyResetsBoth]_vars

\* the admin is asked for a reply to a ticket that was closed meanwhile
C36_Witness ==
    /\ state[ADMIN_ID] = "awaiting_reply"
    /\ reply_ticket_id # NoId
    /\ \E i \in DOMAIN tickets :
          /\ tickets[i].id = reply_ticket_id
          /\ tickets[i].status = "done"
          /\ HasSupportMessage(tickets[i])

\* C37: a feedback text entered through user_suggestion / user_review is
\* accepted only when no feedback of that user and category entered the same
\* way was accepted less than the cooldown window before
C37_RegularFeedbackHonoursCooldown ==
    [][feedback_text'.turn # feedback_text.turn =>
         LET u == feedback_text'.user
             k == feedback_text'.type
         IN  /\ FEEDBACK_COOLDOWN_ENABLED
             /\ feedback_text'.accepted
             /\ feedback_text.entry[u] = "menu"
             /\ feedback_text.regular_at[u][k] # NoTime
             => clock - feedback_text.regular_at[u][k] >= need]_vars

\* C38: thanked never goes back to False and goes to True at most once, and
\* the author of a feedback receives at most one thank-you message for it
C38_ThankedOnce ==
    /\ [](\A f \in FeedbackIds : thanks[f].flips <= 1 /\ thanks[f].sent <= 1)
    /\ [][\A f \in FeedbackIds : thanks[f].thanked => thanks'[f].thanked]_vars

\* the mapping from user ID to reason of a dict
Mapping(d) == {<<d[k].uid, d[k].reason>> : k \in DOMAIN d}

\* C39: after a restart the registry loaded from the ban file maps the same
\* user IDs to the same reasons as the registry that wrote the file
C39_BanFileRoundTrip ==
    ban_store.restarted
        => Mapping(ban_store.reloaded) = Mapping(ban_store.banned)
============================================================================
